---- MODULE Spec2Model ----
(***************************************************************************)
(* video-to-post: the media pipeline.                                      *)
(*                                                                         *)
(* Part 1 models the orchestrator of src/server.ts: the SSE route          *)
(* GET /api/projects/:id/run/:step working on one project row of the       *)
(* store of src/db/index.ts.  Each request is an async handler; the model  *)
(* steps a handler from one await to the next, so overlapping requests on  *)
(* the same project interleave exactly at the awaits of the code.          *)
(***************************************************************************)
EXTENDS Integers, Sequences, FiniteSets, TLC

\* ------------------------------------------------------------------ bounds
\* number of stdout/stderr chunks the processes of one request emit
MaxOutput == 1

\* the handlers of the route that can be in flight at the same time: a request
\* is served by a free handler, and a handler is free again once its stream has
\* closed, so any number of requests follow one another and two can overlap
Runs == {1, 2}

\* --------------------------------------------------------------- constants
\* the step names the route knows, and "bogus" for any other :step value
KnownSteps == {"transcribe", "extract", "generate", "all"}
StepNames == KnownSteps \cup {"bogus"}

\* exit codes of the spawned script: 0, or 1 (every script ends a failure
\* with process.exit(1))
ExitCodes == {0, 1}

\* the enum of the status column
StatusEnum ==
  {"pending", "transcribing", "extracting", "generating", "completed", "error"}

\* a column that holds SQL NULL
NULL == <<>>

VARIABLES
  db,        \* the rows of table projects with the id of the request (0 or 1)
  pc,        \* pc[r]: position of request r's handler
  step,      \* step[r]: the :step parameter of request r
  phase,     \* phase[r]: which script of the switch case r is at (1..3)
  err,       \* err[r]: message of the Error the handler caught
  events,    \* events[r]: the SSE messages written to r's stream, in order
  procs,     \* procs[r]: the external processes r spawned, in order
  writes,    \* writes[r]: the data of r's updateProject calls, in order
  outputs    \* outputs[r]: chunks r's processes have emitted so far

\* Part 2, the timestamp parser (parseVtt of src/generate-html.ts)
VARIABLES
  vttContent,  \* the content of the caption file, a string
  stamps,      \* the timestamps the document was written from (<<>>: none)
  vpc,         \* "input" before the call of parseVtt, "done" after it
  result       \* what parseVtt did: [threw, cues]

orchVars ==
  <<db, pc, step, phase, err, events, procs, writes, outputs>>

vttVars == <<vttContent, stamps, vpc, result>>

\* Part 3, the frame extractor (src/extract-frames.ts)
VARIABLES
  epc,           \* position of the script: "idle", "main", "probe", "decode",
                 \* "rename", "done" (main returned), "exit1" (process.exit(1))
  argv3,         \* process.argv[3]: [given, text]
  videoExists,   \* existsSync(videoPath)
  targetFrames,  \* parseInt(process.argv[3] || "100", 10)
  duration,      \* what getVideoDuration resolved with
  ffmpegRuns,    \* how many times ffmpeg has been invoked
  frameDir,      \* the names of the files in outputDir
  tempFiles,     \* the sorted temp_*.jpg names read after ffmpeg
  offsets,       \* `seconds` of the loop iterations made so far
  files          \* the list extractFrames builds

exVars ==
  <<epc, argv3, videoExists, targetFrames, duration, ffmpegRuns, frameDir,
    tempFiles, offsets, files>>

\* Part 4, the frame selectors of src/generate-html.ts
\* (analyzeAndSelectBestFrame, and selectBestImages with analyzeImage)
VARIABLES
  spc,         \* "idle"; "call" (temporal) or "list" (fixed count) at the
               \* start; "scoring", "analyzing" inside the loops; "returned",
               \* "threw" at the end
  frames,      \* the sorted frame paths
  pixels,      \* pixels[k]: the greyscale buffer [width, data] of frames[k]
  targetTime,  \* the target timestamp, in seconds
  numImages,   \* K of the fixed-count mode
  candidates,  \* the frames of the window, in order
  best,        \* the best frame so far
  bestScore,   \* its score
  lastScore,   \* the score computed by the latest iteration
  idx,         \* the position of the running loop in its list, from 1
  returned,    \* what analyzeAndSelectBestFrame returned
  scores,      \* the ImageScore records pushed so far
  selected     \* the paths selectBestImages selected

selVars ==
  <<spc, frames, pixels, targetTime, numImages, candidates, best, bestScore,
    lastScore, idx, returned, scores, selected>>

\* Part 5, the image loop of main in src/generate-html.ts
VARIABLES
  gpc,           \* "idle"; "select", "transform" inside the loop; "html"
                 \* after it; "done"; "exit1" (main().catch)
  sections,      \* content.sections, as their startTime values
  picked,        \* the selectedFrame of each iteration so far
  outcomes,      \* how the image service answered in each iteration so far
  outDir,        \* the files of outputDir: path -> bytes
  outputImages   \* the list main builds

genVars == <<gpc, sections, picked, outcomes, outDir, outputImages>>

\* Part 6, the storage of the project (the directory getProjectDir(id)), the
\* script process of the run in flight, and the DELETE route of src/server.ts
VARIABLES
  disk,     \* the paths that exist under the project directory, each a
            \* sequence of names (<<>> is the directory itself)
  dpc,      \* position of the DELETE handler: "idle", "found" (row read),
            \* "removed" (rmSync returned), "done" (deleteProject resolved)
  child,    \* position of the script process of the running request:
            \* "none", "main", "checked", "made", "exit0", "exit1"
  seen      \* the frame names generate-html.ts listed in its frames directory

storeVars == <<disk, dpc, child, seen>>

\* Part 7, the timecode of a frame name: written by the rename loop of
\* src/extract-frames.ts, read back by the selectors of src/generate-html.ts
VARIABLES
  cpc,       \* "idle"; "offsets" before the names are written, "named" after
             \* it, "decoded" after the selector has read them
  elapsed,   \* the offsets (seconds, as fractions) of two frames
  named,     \* the file names the rename loop gives them
  decoded    \* timecodeToSeconds of the two names

codecVars == <<cpc, elapsed, named, decoded>>

\* the state of the scripts, which the server's route does not touch
toolVars == <<vttVars, exVars, selVars, genVars, storeVars, codecVars>>

\* what the steps of one part leave alone
exceptVtt == <<orchVars, exVars, selVars, genVars, storeVars, codecVars>>
exceptEx == <<orchVars, vttVars, selVars, genVars, storeVars, codecVars>>
exceptSel == <<orchVars, vttVars, exVars, genVars, storeVars, codecVars>>
exceptGen == <<orchVars, vttVars, exVars, selVars, storeVars, codecVars>>

vars == <<orchVars, vttVars, exVars, selVars, genVars, storeVars, codecVars>>

\* ------------------------------------------------------------- the store
\* the row createProject inserts on upload (schema defaults for the rest)
NewProject ==
  [ status |-> "pending",
    errorMessage |-> NULL,
    transcribeCompleted |-> FALSE,
    extractCompleted |-> FALSE,
    generateCompleted |-> FALSE,
    wavPath |-> "",
    vttPath |-> "",
    htmlPath |-> "" ]

\* UPDATE projects SET data WHERE id = :id  (updatedAt is not modelled)
updateProject(rows, data) ==
  { [f \in DOMAIN p |-> IF f \in DOMAIN data THEN data[f] ELSE p[f]] : p \in rows }

\* getProject(id): result[0] || null, as the set of rows found
getProject == db

\* ----------------------------------------------------- the switch of the route
\* the scripts a step runs, in order
Scripts(s) ==
  CASE s = "transcribe" -> <<"transcribe.ts">>
    [] s = "extract"    -> <<"extract-frames.ts">>
    [] s = "generate"   -> <<"generate-html.ts">>
    [] s = "all"        -> <<"transcribe.ts", "extract-frames.ts", "generate-html.ts">>
    [] OTHER            -> <<>>

\* StateOf with the states of the last two scripts exchanged
StateOfSwapped(script) ==
  CASE script = "transcribe.ts"     -> "transcribing"
    [] script = "extract-frames.ts" -> "generating"
    [] script = "generate-html.ts"  -> "extracting"

\* the status written before a script is spawned
StateOf(script) ==
  CASE script = "transcribe.ts"     -> "transcribing"
    [] script = "extract-frames.ts" -> "extracting"
    [] script = "generate-html.ts"  -> "generating"

\* the completion flag that belongs to a script
FlagOf(script) ==
  CASE script = "transcribe.ts"     -> "transcribeCompleted"
    [] script = "extract-frames.ts" -> "extractCompleted"
    [] script = "generate-html.ts"  -> "generateCompleted"

Flags == {"transcribeCompleted", "extractCompleted", "generateCompleted"}

\* BeginData with the completion flag written together with the step status
BeginDataEarlyFlag(s, k) ==
  (FlagOf(Scripts(s)[k]) :> TRUE) @@ [status |-> StateOf(Scripts(s)[k])]

\* BeginData that also clears the error message of an earlier run
BeginDataClearsError(s, k) ==
  [status |-> StateOf(Scripts(s)[k]), errorMessage |-> NULL]

\* updateProject(id, {status: ...}) in front of runScript
BeginData(s, k) == [status |-> StateOf(Scripts(s)[k])]

\* SuccessData whose generate case returns the status to pending like the
\* other single steps
SuccessDataGeneratePending(s, k) ==
  CASE s = "transcribe" ->
         [transcribeCompleted |-> TRUE, vttPath |-> "video.vtt",
          wavPath |-> "video.wav", status |-> "pending"]
    [] s = "extract" ->
         [extractCompleted |-> TRUE, status |-> "pending"]
    [] s = "generate" ->
         [generateCompleted |-> TRUE, htmlPath |-> "video.html",
          status |-> "pending"]
    [] s = "all" /\ k = 1 ->
         [transcribeCompleted |-> TRUE, vttPath |-> "video.vtt",
          wavPath |-> "video.wav"]
    [] s = "all" /\ k = 2 ->
         [extractCompleted |-> TRUE]
    [] s = "all" /\ k = 3 ->
         [generateCompleted |-> TRUE, htmlPath |-> "video.html",
          status |-> "completed"]

\* SuccessData whose case "all" reuses the data of the single steps, status
\* pending included
SuccessDataAllViaPending(s, k) ==
  CASE s = "transcribe" \/ (s = "all" /\ k = 1) ->
         [transcribeCompleted |-> TRUE, vttPath |-> "video.vtt",
          wavPath |-> "video.wav", status |-> "pending"]
    [] s = "extract" \/ (s = "all" /\ k = 2) ->
         [extractCompleted |-> TRUE, status |-> "pending"]
    [] s = "generate" \/ (s = "all" /\ k = 3) ->
         [generateCompleted |-> TRUE, htmlPath |-> "video.html",
          status |-> "completed"]

\* the updateProject data after runScript resolved, per case of the switch
SuccessData(s, k) ==
  CASE s = "transcribe" ->
         [transcribeCompleted |-> TRUE, vttPath |-> "video.vtt",
          wavPath |-> "video.wav", status |-> "pending"]
    [] s = "extract" ->
         [extractCompleted |-> TRUE, status |-> "pending"]
    [] s = "generate" ->
         [generateCompleted |-> TRUE, htmlPath |-> "video.html",
          status |-> "completed"]
    [] s = "all" /\ k = 1 ->
         [transcribeCompleted |-> TRUE, vttPath |-> "video.vtt",
          wavPath |-> "video.wav"]
    [] s = "all" /\ k = 2 ->
         [extractCompleted |-> TRUE]
    [] s = "all" /\ k = 3 ->
         [generateCompleted |-> TRUE, htmlPath |-> "video.html",
          status |-> "completed"]

\* CatchData that records a fixed text instead of err.message
CatchDataGeneric(message) == [status |-> "error", errorMessage |-> <<"failed">>]

\* CatchData that takes back the completion of the last step
CatchDataClearsFlag(message) ==
  [status |-> "error", errorMessage |-> message, generateCompleted |-> FALSE]

\* the updateProject data of the catch block
CatchData(message) == [status |-> "error", errorMessage |-> message]

Msg(type, data) == [type |-> type, data |-> data]

\* sendMessage("status", ...) in front of runScript
BeginEvents(s, k) == << Msg("status", <<"start", Scripts(s)[k]>>) >>

\* the messages sent after the updateProject that follows a resolved runScript
SuccessEvents(s, k) ==
  CASE s = "all" /\ k = 1 -> << Msg("progress", <<"33">>) >>
    [] s = "all" /\ k = 2 -> << Msg("progress", <<"66">>) >>
    [] s = "all" /\ k = 3 ->
         << Msg("progress", <<"100">>), Msg("status", <<"all done">>) >>
    [] OTHER -> << Msg("status", <<"done", Scripts(s)[k]>>) >>

\* default: of the switch
DefaultEvents(s) == << Msg("error", <<"unknown step", s>>) >>

\* after the switch: sendMessage("done", ...)
FinishEvents == << Msg("done", <<"finished">>) >>

\* a catch block that records the error and sends nothing
CatchEventsSilent(message) == <<>>

\* the catch block's sendMessage("error", err.message)
CatchEvents(message) == << Msg("error", message) >>

\* runScript: the Error of a close with a non-zero code, and of a spawn error
CloseMessage(script, code) == <<script, "failed with code", code>>
SpawnMessage == <<"spawn npx ENOENT">>

\* ------------------------------------------------------------------ Init
OrchInit ==
  /\ db = {NewProject}
  /\ pc = [r \in Runs |-> "idle"]
  /\ step = [r \in Runs |-> "bogus"]
  /\ phase = [r \in Runs |-> 1]
  /\ err = [r \in Runs |-> NULL]
  /\ events = [r \in Runs |-> <<>>]
  /\ procs = [r \in Runs |-> <<>>]
  /\ writes = [r \in Runs |-> <<>>]
  /\ outputs = [r \in Runs |-> 0]

\* no caption document is being parsed
VttIdle ==
  /\ vttContent = <<>>
  /\ stamps = <<>>
  /\ vpc = "idle"
  /\ result = [threw |-> FALSE, cues |-> <<>>]

\* extract-frames.ts is not running
ExIdle ==
  /\ epc = "idle"
  /\ argv3 = [given |-> FALSE, text |-> <<>>]
  /\ videoExists = TRUE
  /\ targetFrames = [kind |-> "NaN", v |-> 0]
  /\ duration = [kind |-> "NaN", v |-> 0]
  /\ ffmpegRuns = 0
  /\ frameDir = {}
  /\ tempFiles = <<>>
  /\ offsets = <<>>
  /\ files = <<>>

\* no selector is running
SelIdle ==
  /\ spc = "idle"
  /\ frames = <<>>
  /\ pixels = <<>>
  /\ targetTime = 0
  /\ numImages = 0
  /\ candidates = <<>>
  /\ best = <<>>
  /\ bestScore = [kind |-> "num", sign |-> 0, sq |-> [n |-> 0, d |-> 1]]
  /\ lastScore = [kind |-> "num", sign |-> 0, sq |-> [n |-> 0, d |-> 1]]
  /\ idx = 1
  /\ returned = <<>>
  /\ scores = <<>>
  /\ selected = <<>>

\* generate-html.ts is not in its image loop
GenIdle ==
  /\ gpc = "idle"
  /\ sections = <<>>
  /\ picked = <<>>
  /\ outcomes = <<>>
  /\ outDir = <<>>
  /\ outputImages = <<>>

\* the paths of the project directory the route and the scripts name
ProjectDir == <<>>
VideoPath == <<"video.mp4">>
WavPath == <<"video.wav">>
VttPath == <<"video.vtt">>
HtmlPath == <<"video.html">>
\* framesDir of the run route, the second argument of generate-html.ts
FramesDir == <<"frames">>
\* outputDir of extract-frames.ts: dirname(videoPath) / (baseName + "_frames")
ExtractOutputDir == <<"video_frames">>

\* what POST /api/projects leaves on storage
Uploaded == {ProjectDir, VideoPath, FramesDir, <<"output">>}

\* the project is as uploaded: no script runs, no deletion was requested
StoreIdle ==
  /\ disk = Uploaded
  /\ dpc = "idle"
  /\ child = "none"
  /\ seen = {}

\* no frame name is being written or read
CodecIdle ==
  /\ cpc = "idle"
  /\ elapsed = <<>>
  /\ named = <<>>
  /\ decoded = <<>>

Init ==
  OrchInit /\ VttIdle /\ ExIdle /\ SelIdle /\ GenIdle /\ StoreIdle /\ CodecIdle

\* --------------------------------------------------------------- actions
\* Admissible that turns away a project whose status is error
AdmissibleUnlessError ==
  /\ getProject # {} /\ VideoPath \in disk
  /\ \A p \in getProject : p.status # "error"

\* the route's 404 checks: the row must exist, and the video file
Admissible == getProject # {} /\ VideoPath \in disk

\* Admit behind a per-Job lock: no request while another run is in flight
AdmitExclusive(r, s) ==
  /\ pc[r] = "idle"
  /\ \A q \in Runs : q < r => pc[q] # "idle"
  /\ \A q \in Runs : pc[q] \in {"idle", "closed"}
  /\ Admissible
  /\ pc' = [pc EXCEPT ![r] = "switch"]
  /\ step' = [step EXCEPT ![r] = s]
  /\ UNCHANGED <<db, phase, err, events, procs, writes, outputs>>
  /\ UNCHANGED toolVars

\* GET /api/projects/:id/run/:step is admitted and streamSSE starts
Admit(r, s) ==
  /\ pc[r] = "idle"
  /\ \A q \in Runs : q < r => pc[q] # "idle"
  /\ Admissible
  /\ pc' = [pc EXCEPT ![r] = "switch"]
  /\ step' = [step EXCEPT ![r] = s]
  /\ UNCHANGED <<db, phase, err, events, procs, writes, outputs>>
  /\ UNCHANGED toolVars

\* a case of the switch up to its runScript call:
\* updateProject(status) and sendMessage("status")
Begin(r) ==
  /\ pc[r] = "switch"
  /\ step[r] \in KnownSteps
  /\ db' = updateProject(db, BeginData(step[r], phase[r]))
  /\ writes' = [writes EXCEPT ![r] = Append(@, BeginData(step[r], phase[r]))]
  /\ events' = [events EXCEPT ![r] = @ \o BeginEvents(step[r], phase[r])]
  /\ pc' = [pc EXCEPT ![r] = "spawn"]
  /\ UNCHANGED <<step, phase, err, procs, outputs>>
  /\ UNCHANGED toolVars

\* default: of the switch
Default(r) ==
  /\ pc[r] = "switch"
  /\ step[r] \notin KnownSteps
  /\ events' = [events EXCEPT ![r] = @ \o DefaultEvents(step[r])]
  /\ pc' = [pc EXCEPT ![r] = "finish"]
  /\ UNCHANGED <<db, step, phase, err, procs, writes, outputs>>
  /\ UNCHANGED toolVars

\* runScript: spawn("npx", ["tsx", script, ...])
Spawn(r) ==
  /\ pc[r] = "spawn"
  /\ procs' = [procs EXCEPT ![r] =
       Append(@, [script |-> Scripts(step[r])[phase[r]], state |-> "alive", code |-> 0])]
  /\ pc' = [pc EXCEPT ![r] = "running"]
  /\ UNCHANGED <<db, step, phase, err, events, writes, outputs>>
  /\ UNCHANGED toolVars

\* stdout/stderr "data" of the running process: sendMessage("output", data)
ProcOutput(r) ==
  /\ pc[r] = "running"
  /\ outputs[r] < MaxOutput
  /\ outputs' = [outputs EXCEPT ![r] = @ + 1]
  /\ events' = [events EXCEPT ![r] =
       Append(@, Msg("output", <<"chunk", procs[r][Len(procs[r])].script>>))]
  /\ UNCHANGED <<db, pc, step, phase, err, procs, writes>>
  /\ UNCHANGED toolVars

\* CloseSettles that resolves whatever the exit code
CloseSettlesAlways(code) == "resolved"

\* how the promise of runScript settles on "close" with an exit code
CloseSettles(code) == IF code = 0 THEN "resolved" ELSE "rejected"

\* proc.on("close", code): resolve() on 0, reject(new Error(...)) otherwise
ProcClose(r, code) ==
  LET k == Len(procs[r])
      script == procs[r][k].script
  IN
  /\ pc[r] = "running"
  /\ procs' = [procs EXCEPT ![r][k] = [@ EXCEPT !.state = "exited", !.code = code]]
  /\ pc' = [pc EXCEPT ![r] = CloseSettles(code)]
  /\ err' = [err EXCEPT ![r] =
       IF CloseSettles(code) = "rejected" THEN CloseMessage(script, code) ELSE @]
  /\ UNCHANGED <<db, step, phase, events, writes, outputs>>
  /\ UNCHANGED toolVars

\* proc.on("error", reject): the process could not be spawned
ProcError(r) ==
  LET k == Len(procs[r]) IN
  /\ pc[r] = "running"
  /\ procs' = [procs EXCEPT ![r][k] = [@ EXCEPT !.state = "spawnfail", !.code = 1]]
  /\ pc' = [pc EXCEPT ![r] = "rejected"]
  /\ err' = [err EXCEPT ![r] = SpawnMessage]
  /\ UNCHANGED <<db, step, phase, events, writes, outputs>>
  /\ UNCHANGED toolVars

\* after `await runScript(...)`: updateProject(flags) and the messages of the
\* case; then the next script of case "all", or break
Succeed(r) ==
  /\ pc[r] = "resolved"
  /\ db' = updateProject(db, SuccessData(step[r], phase[r]))
  /\ writes' = [writes EXCEPT ![r] = Append(@, SuccessData(step[r], phase[r]))]
  /\ events' = [events EXCEPT ![r] = @ \o SuccessEvents(step[r], phase[r])]
  /\ IF phase[r] < Len(Scripts(step[r]))
       THEN /\ phase' = [phase EXCEPT ![r] = @ + 1]
            /\ pc' = [pc EXCEPT ![r] = "switch"]
       ELSE /\ phase' = phase
            /\ pc' = [pc EXCEPT ![r] = "finish"]
  /\ UNCHANGED <<step, err, procs, outputs>>
  /\ UNCHANGED toolVars

\* after the switch: sendMessage("done") and the stream closes
Finish(r) ==
  /\ pc[r] = "finish"
  /\ events' = [events EXCEPT ![r] = @ \o FinishEvents]
  /\ pc' = [pc EXCEPT ![r] = "closed"]
  /\ UNCHANGED <<db, step, phase, err, procs, writes, outputs>>
  /\ UNCHANGED toolVars

\* catch (err): updateProject(status error, errorMessage), sendMessage("error")
Catch(r) ==
  /\ pc[r] = "rejected"
  /\ db' = updateProject(db, CatchData(err[r]))
  /\ writes' = [writes EXCEPT ![r] = Append(@, CatchData(err[r]))]
  /\ events' = [events EXCEPT ![r] = @ \o CatchEvents(err[r])]
  /\ pc' = [pc EXCEPT ![r] = "closed"]
  /\ UNCHANGED <<step, phase, err, procs, outputs>>
  /\ UNCHANGED toolVars

\* the callback of streamSSE returns: the stream is closed and the handler is
\* free for the next request; nothing of the closed stream is read again
Release(r) ==
  /\ pc[r] = "closed"
  /\ pc' = [pc EXCEPT ![r] = "idle"]
  /\ step' = [step EXCEPT ![r] = "bogus"]
  /\ phase' = [phase EXCEPT ![r] = 1]
  /\ err' = [err EXCEPT ![r] = NULL]
  /\ events' = [events EXCEPT ![r] = <<>>]
  /\ procs' = [procs EXCEPT ![r] = <<>>]
  /\ writes' = [writes EXCEPT ![r] = <<>>]
  /\ outputs' = [outputs EXCEPT ![r] = 0]
  /\ UNCHANGED db
  /\ UNCHANGED toolVars

Next ==
  \/ \E r \in Runs, s \in StepNames : Admit(r, s)
  \/ \E r \in Runs : Begin(r)
  \/ \E r \in Runs : Default(r)
  \/ \E r \in Runs : Spawn(r)
  \/ \E r \in Runs : ProcOutput(r)
  \/ \E r \in Runs, code \in ExitCodes : ProcClose(r, code)
  \/ \E r \in Runs : ProcError(r)
  \/ \E r \in Runs : Succeed(r)
  \/ \E r \in Runs : Finish(r)
  \/ \E r \in Runs : Catch(r)
  \/ \E r \in Runs : Release(r)

Spec == Init /\ [][Next]_vars

\* ------------------------------------------------- reading the histories
Last(seq) == seq[Len(seq)]

Terminal(e) == e.type \in {"done", "error"}

TerminalCount(evs) == Cardinality({i \in DOMAIN evs : Terminal(evs[i])})

HasType(evs, type) == \E i \in DOMAIN evs : evs[i].type = type

\* a process that ended with a non-zero code or could not be spawned
Failed(proc) ==
  \/ proc.state = "spawnfail"
  \/ proc.state = "exited" /\ proc.code # 0

ExitedZero(proc) == proc.state = "exited" /\ proc.code = 0

\* handler r took a step
Moved(r) == pc'[r] # pc[r] \/ events'[r] # events[r]

\* handler r called updateProject in this step
Wrote(r) == Len(writes'[r]) = Len(writes[r]) + 1

\* ------------------------------------------------------------------- C1
\* C1: the stream of every run that has closed holds exactly one terminal
\* event (type done or error) and that event is the last one of the stream,
\* for every step name, the unknown ones included.
C1_ExactlyOneTerminal ==
  \A r \in Runs :
    pc[r] = "closed" =>
      /\ TerminalCount(events[r]) = 1
      /\ Terminal(Last(events[r]))

\* ------------------------------------------------------------------- C2
\* C2: a completion flag turns true only in a step of a run whose latest
\* process is the script of that flag and has exited with code 0 in that run;
\* every flag a run has written is backed by such a process of the same run.
C2_FlagBacked ==
  \A r \in Runs : \A i \in DOMAIN writes[r] :
    \A f \in Flags \cap DOMAIN writes[r][i] :
      \E k \in DOMAIN procs[r] :
        FlagOf(procs[r][k].script) = f /\ ExitedZero(procs[r][k])

C2_FlagStep ==
  \A f \in Flags :
    ((\E p \in db : ~p[f]) /\ (\E q \in db' : q[f])) =>
      \E r \in Runs :
        /\ pc[r] = "resolved" /\ Wrote(r)
        /\ procs[r] # <<>>
        /\ FlagOf(Last(procs[r]).script) = f
        /\ ExitedZero(Last(procs[r]))

C2_FlagOnlyAfterExitZero == [](C2_FlagBacked) /\ [][C2_FlagStep]_vars

\* a run has set transcribeCompleted after its transcribe.ts exited with 0
C2_Witness ==
  \E r \in Runs :
    /\ procs[r] # <<>> /\ procs[r][1].script = "transcribe.ts"
    /\ ExitedZero(procs[r][1])
    /\ Len(writes[r]) >= 2 /\ "transcribeCompleted" \in DOMAIN writes[r][2]
    /\ \A p \in db : p.transcribeCompleted

\* ------------------------------------------------------------------- C3
\* C3: when a process of a run fails (non-zero exit or spawn error) it is the
\* last process the run starts and the run sends no done event; the catch
\* step sets status to error and errorMessage to the message of the failure,
\* which is exactly the data of the terminal error event.
FailureMessage(proc) ==
  IF proc.state = "spawnfail" THEN SpawnMessage
  ELSE CloseMessage(proc.script, proc.code)

C3_FailedRun ==
  \A r \in Runs : \A k \in DOMAIN procs[r] :
    Failed(procs[r][k]) =>
      /\ k = Len(procs[r])
      /\ pc[r] \in {"rejected", "closed"}
      /\ ~HasType(events[r], "done")
      /\ pc[r] = "closed" =>
           /\ Last(events[r]) = Msg("error", FailureMessage(procs[r][k]))
           /\ Last(writes[r]).status = "error"
           /\ Last(writes[r]).errorMessage = Last(events[r]).data

C3_CatchStep ==
  \A r \in Runs :
    (pc[r] = "rejected" /\ pc'[r] # "rejected") =>
      /\ pc'[r] = "closed"
      /\ Last(events'[r]).type = "error"
      /\ \A p \in db' :
           p.status = "error" /\ p.errorMessage = Last(events'[r]).data

C3_FailureStopsRun == [](C3_FailedRun) /\ [][C3_CatchStep]_vars

\* an `all` run whose second process failed has closed, and the row holds
\* the message of that failure
C3_Witness ==
  \E r \in Runs :
    /\ pc[r] = "closed" /\ step[r] = "all" /\ Len(procs[r]) = 2
    /\ Failed(procs[r][2])
    /\ \A p \in db :
         p.status = "error" /\ p.errorMessage = CloseMessage("extract-frames.ts", 1)

\* the statuses a run has written, in order
HasStatus(data) == "status" \in DOMAIN data

Statuses(ws) ==
  LET withStatus == SelectSeq(ws, HasStatus)
  IN [i \in DOMAIN withStatus |-> withStatus[i].status]

IsPrefix(a, b) == Len(a) <= Len(b) /\ \A i \in DOMAIN a : a[i] = b[i]

Front(seq) == SubSeq(seq, 1, Len(seq) - 1)

SingleSteps == {"transcribe", "extract", "generate"}

\* the run has ended without a failure
Succeeded(r) == pc[r] \in {"finish", "closed"} /\ \A k \in DOMAIN procs[r] : ~Failed(procs[r][k])

\* a status a run writes is the status of the row right after the write
WriteLands ==
  \A r \in Runs :
    (Wrote(r) /\ HasStatus(Last(writes'[r]))) =>
      \A q \in db' : q.status = Last(writes'[r]).status

\* ------------------------------------------------------------------- C4
\* C4 as stated: a single-step run writes the state of its step and then
\* pending (success) or error (failure), and no other status.
C4_SingleStepReturnsToPending ==
  \A r \in Runs :
    (pc[r] = "closed" /\ step[r] \in SingleSteps) =>
      Statuses(writes[r]) =
        << StateOf(Scripts(step[r])[1]),
           IF Failed(Last(procs[r])) THEN "error" ELSE "pending" >>

\* the status a successful run of a step leaves
FinalOf(s) == IF s \in {"generate", "all"} THEN "completed" ELSE "pending"

\* C4 amended: a single-step run writes the state of its step and then, on
\* success, pending for transcribe and extract but completed for generate,
\* and error on failure; it writes no other status, and each status it writes
\* is the status of the Job right after the write.
C4_SingleStepWritten ==
  \A r \in Runs :
    step[r] \in SingleSteps =>
      LET st == Statuses(writes[r])
          begin == << StateOf(Scripts(step[r])[1]) >>
      IN /\ IsPrefix(st, begin \o <<FinalOf(step[r])>>)
            \/ st = begin \o <<"error">>
         /\ pc[r] = "closed" =>
              st = begin \o << IF Failed(Last(procs[r])) THEN "error"
                               ELSE FinalOf(step[r]) >>

C4_SingleStepStatuses == [](C4_SingleStepWritten) /\ [][WriteLands]_vars

\* a generate run on a Job that never failed has closed with done and left
\* the status completed
C4_Witness ==
  \E r \in Runs :
    /\ pc[r] = "closed" /\ step[r] = "generate"
    /\ Statuses(writes[r]) = <<"generating", "completed">>
    /\ \A q \in Runs : q # r => pc[q] = "idle"
    /\ \A p \in db : p.status = "completed" /\ p.errorMessage = NULL

\* ------------------------------------------------------------------- C5
AllOrder == <<"transcribing", "extracting", "generating", "completed">>

\* C5: in an `all` run the statuses written are transcribing, extracting,
\* generating, completed in that order (never pending; error only as the last
\* one of a failed run); the processes are transcribe, extract, generate in
\* that order, each started only after the previous one exited with 0, so at
\* most one of them is alive; a run that ends without failure has written all
\* four statuses and all three completion flags are true.
C5_AllRun ==
  \A r \in Runs :
    step[r] = "all" =>
      LET st == Statuses(writes[r]) IN
      /\ \/ IsPrefix(st, AllOrder)
         \/ st # <<>> /\ Last(st) = "error" /\ IsPrefix(Front(st), AllOrder)
      /\ IsPrefix([k \in DOMAIN procs[r] |-> procs[r][k].script], Scripts("all"))
      /\ \A k \in DOMAIN procs[r] : k < Len(procs[r]) => ExitedZero(procs[r][k])
      /\ Cardinality({k \in DOMAIN procs[r] : procs[r][k].state = "alive"}) <= 1
      /\ Succeeded(r) =>
           /\ st = AllOrder
           /\ Len(procs[r]) = 3
           /\ \A p \in db : \A f \in Flags : p[f]

C5_AllRunInOrder == [](C5_AllRun) /\ [][WriteLands]_vars

\* an `all` run has closed with done after three processes
C5_Witness ==
  \E r \in Runs :
    /\ pc[r] = "closed" /\ step[r] = "all" /\ HasType(events[r], "done")
    /\ Len(procs[r]) = 3 /\ ExitedZero(procs[r][3])
    /\ \A p \in db : p.status = "completed" /\ p.generateCompleted

\* ------------------------------------------------------------------- C6
\* C6: an `all` run whose second process (extract) fails starts no third
\* process, writes neither status completed nor generateCompleted, and the
\* transcribeCompleted it wrote after the first step stays true; no step of
\* an `all` run that is still in its first two steps changes generateCompleted
\* or makes the status completed.
C6_ExtractFailed ==
  \A r \in Runs :
    (step[r] = "all" /\ Len(procs[r]) >= 2 /\ Failed(procs[r][2])) =>
      /\ Len(procs[r]) = 2
      /\ \A i \in DOMAIN writes[r] :
           /\ "generateCompleted" \notin DOMAIN writes[r][i]
           /\ HasStatus(writes[r][i]) => writes[r][i].status # "completed"
      /\ \A p \in db : p.transcribeCompleted

C6_EarlySteps ==
  \A r \in Runs :
    (step[r] = "all" /\ phase[r] <= 2 /\ phase'[r] <= 2 /\ Moved(r)) =>
      \A p \in db : \A q \in db' :
        /\ q.generateCompleted = p.generateCompleted
        /\ q.status = "completed" => p.status = "completed"

C6_ExtractFailureInAll == [](C6_ExtractFailed) /\ [][C6_EarlySteps]_vars

\* the only run on a fresh Job was `all`, its extract failed: the Job is in
\* error with transcribeCompleted set and generateCompleted not
C6_Witness ==
  \E r \in Runs :
    /\ pc[r] = "closed" /\ step[r] = "all"
    /\ Len(procs[r]) = 2 /\ ExitedZero(procs[r][1]) /\ Failed(procs[r][2])
    /\ \A p \in db :
         /\ p.status = "error" /\ p.transcribeCompleted
         /\ ~p.extractCompleted /\ ~p.generateCompleted

\* ------------------------------------------------------------------- C7
\* the order of the statuses; error stands outside of it
Rank(st) ==
  CASE st = "pending"      -> 0
    [] st = "transcribing" -> 1
    [] st = "extracting"   -> 2
    [] st = "generating"   -> 3
    [] st = "completed"    -> 4
    [] OTHER               -> 5

NonTerminal == {"pending", "transcribing", "extracting", "generating"}

Forward(a, b) == a # "error" /\ b # "error" /\ Rank(b) > Rank(a)

\* C7 as stated: every change of the Job status moves forward in the order
\* pending < transcribing < extracting < generating < completed, or is a
\* transition to error from one of the four non-terminal states.
C7_StatusMonotonic ==
  [][ \A p \in db : \A q \in db' :
        q.status # p.status =>
          \/ Forward(p.status, q.status)
          \/ q.status = "error" /\ p.status \in NonTerminal ]_vars

\* C7 amended: the statuses one run writes move strictly forward in that
\* order, except that the last status of a failed run is error and the last
\* status of a successful transcribe or extract single-step run is pending;
\* every change of the Job status is such a write of some run.
C7_RunWrites ==
  \A r \in Runs :
    LET st == Statuses(writes[r]) IN
    \A i \in 1..(Len(st) - 1) :
      \/ Forward(st[i], st[i + 1])
      \/ i + 1 = Len(st) /\ st[i + 1] = "error"
      \/ i + 1 = Len(st) /\ st[i + 1] = "pending"
           /\ step[r] \in {"transcribe", "extract"} /\ Succeeded(r)

C7_StatusChange ==
  \A p \in db : \A q \in db' :
    q.status # p.status =>
      \E r \in Runs :
        /\ Wrote(r) /\ HasStatus(Last(writes'[r]))
        /\ q.status = Last(writes'[r]).status

C7_ForwardWithinRun == [](C7_RunWrites) /\ [][C7_StatusChange]_vars

\* an `all` run has moved the status forward twice and is generating
C7_Witness ==
  \E r \in Runs :
    /\ Statuses(writes[r]) = <<"transcribing", "extracting", "generating">>
    /\ \A p \in db : p.status = "generating"

\* ------------------------------------------------------------------- C8
\* C8: whenever the Job status is error and a handler is free, a request for
\* each of transcribe, extract, generate and all is admitted; an admitted run
\* updates the status and spawns the script of its step whatever the status
\* was; a run that ends without failure has written last the status of its
\* step (pending for transcribe and extract, completed for generate and all),
\* the one it writes on a pending Job.
C8_ErrorNotLocking ==
  /\ ((\E p \in db : p.status = "error") /\ (\E r \in Runs : pc[r] = "idle")) =>
       \A s \in KnownSteps : ENABLED (\E r \in Runs : Admit(r, s))
  /\ \A r \in Runs :
       /\ (pc[r] = "switch" /\ step[r] \in KnownSteps) => ENABLED Begin(r)
       /\ pc[r] = "spawn" => ENABLED Spawn(r)
       /\ \A k \in DOMAIN procs[r] : procs[r][k].script = Scripts(step[r])[k]
       /\ (Succeeded(r) /\ step[r] \in KnownSteps) =>
            Last(Statuses(writes[r])) = FinalOf(step[r])

\* after a failure was recorded on the Job, a later run has closed with done
\* and the status is completed
C8_Witness ==
  \E r \in Runs :
    /\ pc[r] = "closed" /\ HasType(events[r], "done")
    /\ step[r] \in {"generate", "all"}
    /\ \A p \in db : p.status = "completed" /\ p.errorMessage # NULL

\* ------------------------------------------------------------------- C9
\* the steps of handler r itself, and the exit of the process it awaits
HandlerStep(r) ==
  \/ Begin(r) \/ Default(r) \/ Spawn(r) \/ Succeed(r) \/ Finish(r) \/ Catch(r)

ProcessEnds(r) == ProcError(r) \/ \E code \in ExitCodes : ProcClose(r, code)

\* the event loop runs every continuation that is ready, every external
\* process eventually exits or fails to spawn, and Job-store updates return
FairSpec ==
  /\ Spec
  /\ \A r \in Runs : WF_vars(HandlerStep(r)) /\ WF_vars(ProcessEnds(r))

\* C9: every admitted run eventually closes its stream with a terminal event
\* (done or error) as the last event.
C9_EventuallyTerminal ==
  \A r \in Runs :
    (pc[r] = "switch") ~>
      (pc[r] = "closed" /\ events[r] # <<>> /\ Terminal(Last(events[r])))

\* a run whose process could not be spawned has closed with the error event
C9_Witness ==
  \E r \in Runs :
    /\ pc[r] = "closed" /\ procs[r] # <<>>
    /\ Last(procs[r]).state = "spawnfail"
    /\ Last(events[r]) = Msg("error", SpawnMessage)

\* ======================================================================
\* Part 2: parseVtt.  A string is the sequence of its characters, numbers of
\* seconds are kept in thousandths (a timestamp has three fractional
\* digits), and a number is [kind, v] with kind "num", "NaN" (the value is
\* NaN) or "throw" (the expression threw a TypeError).
\* ======================================================================

\* longest caption document, in lines
MaxLines == 3

Digits == <<"0", "1", "2", "3", "4", "5", "6", "7", "8", "9">>

IsDigit(c) == \E d \in 1..10 : Digits[d] = c

DigitVal(c) == (CHOOSE d \in 1..10 : Digits[d] = c) - 1

\* the characters String.prototype.trim removes (those the documents use)
WhiteSpace == {" ", "\t", "\r"}

Arrow == <<"-", "-", ">">>

RECURSIVE TrimStart(_)
TrimStart(str) ==
  IF str # <<>> /\ Head(str) \in WhiteSpace THEN TrimStart(Tail(str)) ELSE str

RECURSIVE TrimEnd(_)
TrimEnd(str) ==
  IF str # <<>> /\ str[Len(str)] \in WhiteSpace
    THEN TrimEnd(SubSeq(str, 1, Len(str) - 1))
    ELSE str

\* str.trim()
Trim(str) == TrimEnd(TrimStart(str))

\* str.indexOf(pat) + 1, 0 when pat does not occur
IndexOf(str, pat) ==
  LET hits == {i \in 1..(Len(str) - Len(pat) + 1) :
                 SubSeq(str, i, i + Len(pat) - 1) = pat}
  IN IF hits = {} THEN 0 ELSE CHOOSE i \in hits : \A j \in hits : i <= j

\* str.includes(pat)
Includes(str, pat) == IndexOf(str, pat) # 0

\* str.split(sep)
RECURSIVE Split(_, _)
Split(str, sep) ==
  LET i == IndexOf(str, sep)
  IN IF i = 0 THEN <<str>>
     ELSE <<SubSeq(str, 1, i - 1)>> \o Split(SubSeq(str, i + Len(sep), Len(str)), sep)

\* str.replace(pat, by): the first occurrence only
Replace(str, pat, by) ==
  LET i == IndexOf(str, pat)
  IN IF i = 0 THEN str
     ELSE SubSeq(str, 1, i - 1) \o by \o SubSeq(str, i + Len(pat), Len(str))

Num(v) == [kind |-> "num", v |-> v]
NaN == [kind |-> "NaN", v |-> 0]
Throw == [kind |-> "throw", v |-> 0]

\* the number of leading digits of str
RECURSIVE DigitRun(_)
DigitRun(str) ==
  IF str # <<>> /\ IsDigit(Head(str)) THEN 1 + DigitRun(Tail(str)) ELSE 0

\* the value of a string of digits
RECURSIVE Decimal(_)
Decimal(ds) ==
  IF ds = <<>> THEN 0 ELSE 10 * Decimal(SubSeq(ds, 1, Len(ds) - 1)) + DigitVal(ds[Len(ds)])

\* an optional sign in front of a number: <<factor, rest>>
Signed(str) ==
  IF str # <<>> /\ Head(str) = "-" THEN <<-1, Tail(str)>>
  ELSE IF str # <<>> /\ Head(str) = "+" THEN <<1, Tail(str)>>
  ELSE <<1, str>>

\* parseInt(str), radix 10: leading white space, a sign, digits; the rest of
\* the string is ignored; NaN without a digit.  The result counts units.
parseInt(str) ==
  LET sg == Signed(TrimStart(str))
      n == DigitRun(sg[2])
  IN IF n = 0 THEN NaN ELSE Num(sg[1] * Decimal(SubSeq(sg[2], 1, n)))

\* the first three fractional digits as thousandths
Thousandths(ds) ==
  LET d(i) == IF i <= Len(ds) THEN DigitVal(ds[i]) ELSE 0
  IN 100 * d(1) + 10 * d(2) + d(3)

\* parseFloat(str): leading white space, a sign, digits, "." and digits; NaN
\* without a digit.  The result counts thousandths.  (Exponents do not occur
\* in the documents.)
parseFloat(str) ==
  LET sg == Signed(TrimStart(str))
      n == DigitRun(sg[2])
      rest == SubSeq(sg[2], n + 1, Len(sg[2]))
      f == IF rest # <<>> /\ Head(rest) = "." THEN DigitRun(Tail(rest)) ELSE 0
  IN IF n = 0 /\ f = 0 THEN NaN
     ELSE Num(sg[1] * (1000 * Decimal(SubSeq(sg[2], 1, n))
                        + Thousandths(SubSeq(rest, 2, f + 1))))

\* a * k and a + b of JavaScript numbers
Times(a, k) == IF a.kind = "num" THEN Num(a.v * k) ELSE a

Plus(a, b) ==
  IF a.kind = "throw" \/ b.kind = "throw" THEN Throw
  ELSE IF a.kind = "NaN" \/ b.kind = "NaN" THEN NaN
  ELSE Num(a.v + b.v)

\* Seconds that passes the field to parseFloat as it is
SecondsAsWritten(parts, k) ==
  IF k > Len(parts) THEN Throw ELSE parseFloat(parts[k])

\* s.replace(",", ".") of the seconds field; s is undefined, and the call
\* throws, when the token has a single field
Seconds(parts, k) ==
  IF k > Len(parts) THEN Throw ELSE parseFloat(Replace(parts[k], <<",">>, <<".">>))

\* the callback of line.split("-->").map(...): one side of the separator to
\* seconds
ToSeconds(t) ==
  LET parts == Split(Trim(t), <<":">>)
  IN IF Len(parts) = 3
       THEN Plus(Plus(Times(parseInt(parts[1]), 3600000),
                      Times(parseInt(parts[2]), 60000)),
                 Seconds(parts, 3))
       ELSE Plus(Times(parseInt(parts[1]), 60000), Seconds(parts, 2))

\* TextEnd that stops at blank lines only
RECURSIVE TextEndAtBlank(_, _)
TextEndAtBlank(lines, i) ==
  IF i <= Len(lines) /\ Trim(lines[i]) # <<>>
    THEN TextEndAtBlank(lines, i + 1)
    ELSE i

\* the inner while loop: the index of the first line after the text of a cue
RECURSIVE TextEnd(_, _)
TextEnd(lines, i) ==
  IF i <= Len(lines) /\ Trim(lines[i]) # <<>> /\ ~Includes(lines[i], Arrow)
    THEN TextEnd(lines, i + 1)
    ELSE i

\* JoinText that does not trim the lines it joins
RECURSIVE JoinTextUntrimmed(_, _, _)
JoinTextUntrimmed(lines, i, j) ==
  IF i >= j THEN <<>>
  ELSE lines[i] \o <<" ">> \o JoinTextUntrimmed(lines, i + 1, j)

\* text += lines[i].trim() + " " for the lines i..j-1
RECURSIVE JoinText(_, _, _)
JoinText(lines, i, j) ==
  IF i >= j THEN <<>> ELSE Trim(lines[i]) \o <<" ">> \o JoinText(lines, i + 1, j)

\* the "Skip header" loop: the index of the first line that includes "-->"
RECURSIVE SkipHeader(_, _)
SkipHeader(lines, i) ==
  IF i <= Len(lines) /\ ~Includes(lines[i], Arrow) THEN SkipHeader(lines, i + 1) ELSE i

\* the main while loop from line i on, with the cues pushed so far
RECURSIVE ParseFrom(_, _, _)
ParseFrom(lines, i, cues) ==
  IF i > Len(lines) THEN [threw |-> FALSE, cues |-> cues]
  ELSE
    LET line == Trim(lines[i]) IN
    IF Includes(line, Arrow)
      THEN LET sides == Split(line, Arrow)
               times == [k \in DOMAIN sides |-> ToSeconds(sides[k])]
               j == TextEnd(lines, i + 1)
               text == JoinText(lines, i + 1, j)
           IN IF \E k \in DOMAIN times : times[k].kind = "throw"
                THEN [threw |-> TRUE, cues |-> <<>>]
                ELSE ParseFrom(lines, j,
                       IF Trim(text) # <<>>
                         THEN Append(cues, [startTime |-> times[1],
                                            endTime |-> times[2],
                                            text |-> Trim(text)])
                         ELSE cues)
      ELSE ParseFrom(lines, i + 1, cues)

\* parseVtt that treats a document without cues as an error
parseVttRejectsEmpty(content) ==
  LET lines == Split(content, <<"\n">>)
      r == ParseFrom(lines, SkipHeader(lines, 1), <<>>)
  IN IF r.cues = <<>> THEN [threw |-> TRUE, cues |-> <<>>] ELSE r

\* parseVtt(vttContent)
parseVtt(content) ==
  LET lines == Split(content, <<"\n">>)
  IN ParseFrom(lines, SkipHeader(lines, 1), <<>>)

\* ------------------------------------------------ the caption documents
\* a timestamp as whisper-cli writes it: [fields, h, m, s, ms, sep]
HourValues == {0, 1, 10}
MinuteValues == {0, 5, 59}
SecondValues == {1, 3, 59}
MilliValues == {0, 500}
Separators == {".", ","}

Stamps ==
  [fields : {3}, h : HourValues, m : MinuteValues, s : SecondValues,
   ms : MilliValues, sep : Separators]
  \cup
  [fields : {2}, h : {0}, m : MinuteValues, s : SecondValues,
   ms : MilliValues, sep : Separators]

\* the end timestamps the start timestamps are paired with
EndStamps ==
  { [fields |-> 3, h |-> 0, m |-> 0, s |-> 3, ms |-> 500, sep |-> "."],
    [fields |-> 2, h |-> 0, m |-> 59, s |-> 59, ms |-> 0, sep |-> ","],
    [fields |-> 3, h |-> 10, m |-> 5, s |-> 1, ms |-> 500, sep |-> ","] }

Pad2(n) == <<Digits[(n \div 10) + 1], Digits[(n % 10) + 1]>>

Pad3(n) == <<Digits[(n \div 100) + 1]>> \o Pad2(n % 100)

\* the text of a timestamp
Format(t) ==
  (IF t.fields = 3 THEN Pad2(t.h) \o <<":">> ELSE <<>>)
    \o Pad2(t.m) \o <<":">> \o Pad2(t.s) \o <<t.sep>> \o Pad3(t.ms)

\* the timestamp line of a cue
StampLine(from, to) == Format(from) \o <<" ">> \o Arrow \o <<" ">> \o Format(to)

HelloWorld == <<"H", "e", "l", "l", "o", " ", "w", "o", "r", "l", "d">>

\* the lines the other documents are made of
LinePool ==
  { <<"W", "E", "B", "V", "T", "T">>,
    <<>>,
    <<" ">>,
    HelloWorld,
    <<" ", "h", "i", " ">>,
    <<"0", "0", ":", "0", "0", ":", "0", "1", ".", "0", "0", "0", " ",
      "-", "-", ">", " ",
      "0", "0", ":", "0", "0", ":", "0", "3", ".", "5", "0", "0">>,
    <<"0", "1", ":", "0", "5", ",", "2", "5", "0", " ", "-", "-", ">", " ",
      "0", "1", ":", "0", "7", ",", "0", "0", "0", "\r">>,
    <<"0", "0", ":", "0", "9", ".", "0", "0", "0", " ", "-", "-", ">", " ",
      "0", "0", ":", "0", "2", ".", "0", "0", "0">>,
    <<"a", ":", "b", " ", "-", "-", ">", " ", "c", ":", "d">>,
    <<"5", " ", "-", "-", ">", " ", "7">> }

\* the content of a file of the given lines
RECURSIVE FileOf(_)
FileOf(lines) ==
  IF Len(lines) = 1 THEN lines[1] ELSE lines[1] \o <<"\n">> \o FileOf(Tail(lines))

\* a cue written from two timestamps, and the documents of up to MaxLines
\* lines of the pool
StampDoc(pair) == FileOf(<< StampLine(pair[1], pair[2]), HelloWorld >>)

PoolDocs == { FileOf(lines) : lines \in UNION { [1..n -> LinePool] : n \in 1..MaxLines } }

\* ---------------------------------------------------- the parser's runs
VttInit ==
  /\ OrchInit /\ ExIdle /\ SelIdle /\ GenIdle
  /\ vpc = "input"
  /\ result = [threw |-> FALSE, cues |-> <<>>]
  /\ \/ /\ stamps \in Stamps \X EndStamps
        /\ vttContent = StampDoc(stamps)
     \/ /\ stamps = <<>>
        /\ vttContent \in PoolDocs
  /\ StoreIdle /\ CodecIdle

\* const cues = parseVtt(vttContent)
ParseVtt ==
  /\ vpc = "input"
  /\ result' = parseVtt(vttContent)
  /\ vpc' = "done"
  /\ UNCHANGED <<vttContent, stamps>>
  /\ UNCHANGED exceptVtt

VttNext == ParseVtt

VttSpec == VttInit /\ [][VttNext]_vars

\* ------------------------------------------------------------------ C10
\* what the claim computes from the fields of a timestamp, in thousandths
StampValue(t) ==
  (IF t.fields = 3 THEN t.h * 3600 ELSE 0) * 1000 + t.m * 60 * 1000 + t.s * 1000 + t.ms

ExampleDoc ==
  <<"0", "0", ":", "0", "0", ":", "0", "1", ".", "0", "0", "0", " ",
    "-", "-", ">", " ",
    "0", "0", ":", "0", "0", ":", "0", "3", ".", "5", "0", "0", "\n">>
    \o HelloWorld

\* C10: a document of one cue written from two timestamps (3 fields or 2,
\* "." or "," in front of the fraction) parses to exactly one cue whose start
\* and end are hours*3600 + minutes*60 + seconds of their timestamps; the
\* document `00:00:01.000 --> 00:00:03.500`, `Hello world` yields one cue
\* with start 1.0, end 3.5 and text `Hello world`.
C10_TimestampToSeconds ==
  /\ (vpc = "done" /\ stamps # <<>>) =>
       result = [threw |-> FALSE,
                 cues |-> << [startTime |-> Num(StampValue(stamps[1])),
                              endTime |-> Num(StampValue(stamps[2])),
                              text |-> HelloWorld] >>]
  /\ (vpc = "done" /\ vttContent = ExampleDoc) =>
       result = [threw |-> FALSE,
                 cues |-> << [startTime |-> Num(1000), endTime |-> Num(3500),
                              text |-> HelloWorld] >>]

\* a 2-field timestamp with a comma has been converted
C10_Witness ==
  /\ vpc = "done" /\ stamps # <<>>
  /\ stamps[1] = [fields |-> 2, h |-> 0, m |-> 5, s |-> 59, ms |-> 500, sep |-> ","]
  /\ Len(result.cues) = 1
  /\ result.cues[1].startTime = Num(359500)

\* ------------------------------------------------------------------ C11
\* the document has no occurrence of the time-range separator
NoSeparator(content) == ~Includes(content, <<"-", "-", ">">>)

\* C11: for every caption document without a `-->` line, the empty document
\* included, parseVtt returns the empty cue sequence and does not throw.
C11_NoTimestampLinesEmpty ==
  (vpc = "done" /\ NoSeparator(vttContent)) =>
     result = [threw |-> FALSE, cues |-> <<>>]

\* a document of a header, a blank line and a text line has been parsed
C11_Witness ==
  /\ vpc = "done"
  /\ vttContent = FileOf(<< <<"W", "E", "B", "V", "T", "T">>, <<>>, HelloWorld >>)
  /\ NoSeparator(vttContent)
  /\ result = [threw |-> FALSE, cues |-> <<>>]

\* ======================================================================
\* Part 3: extract-frames.ts.  File names and paths are strings (sequences
\* of characters); a number of seconds that is not whole is a fraction
\* [n, d] with d > 0, so that i * interval and Math.floor are exact.
\* ======================================================================

\* most frames the decoder emits in one run
MaxCount == 4

\* n.toString() for an integer n >= 0
RECURSIVE toString(_)
toString(n) ==
  IF n < 10 THEN <<Digits[n + 1]>>
  ELSE toString(n \div 10) \o <<Digits[(n % 10) + 1]>>

\* str.padStart(len, "0")
RECURSIVE PadStart(_, _)
PadStart(str, len) ==
  IF Len(str) >= len THEN str ELSE PadStart(<<"0">> \o str, len)

\* the greatest common divisor of a >= 0 and b >= 0
RECURSIVE Gcd(_, _)
Gcd(a, b) == IF b = 0 THEN a ELSE Gcd(b, a % b)

Abs(n) == IF n < 0 THEN -n ELSE n

\* the fraction n / d, d > 0, in lowest terms
Rat(n, d) ==
  LET g == Gcd(Abs(n), d) IN [n |-> n \div g, d |-> d \div g]

\* Math.floor(q)
Floor(q) == q.n \div q.d

\* q / k and q % k for q >= 0 and an integer k > 0
RatDiv(q, k) == Rat(q.n, q.d * k)

RatMod(q, k) == Rat(q.n % (q.d * k), q.d)

\* i * q for an integer i
RatTimes(i, q) == Rat(i * q.n, q.d)

RatLess(p, q) == p.n * q.d < q.n * p.d

RatMinus(p, q) == Rat(p.n * q.d - q.n * p.d, p.d * q.d)

RatEq(p, q) == p.n * q.d = q.n * p.d

\* the timecode with m taken from the whole number of minutes, not from the
\* remainder of the hour
TimecodeTotalMinutes(seconds) ==
  LET h == Floor(RatDiv(seconds, 3600))
      m == Floor(RatDiv(seconds, 60))
      s == Floor(RatMod(seconds, 60))
  IN PadStart(toString(h), 2) \o <<"_">> \o PadStart(toString(m), 2)
       \o <<"_">> \o PadStart(toString(s), 2)

secondsToTimecode(seconds) ==
  LET h == Floor(RatDiv(seconds, 3600))
      m == Floor(RatDiv(RatMod(seconds, 3600), 60))
      s == Floor(RatMod(seconds, 60))
  IN PadStart(toString(h), 2) \o <<"_">> \o PadStart(toString(m), 2)
       \o <<"_">> \o PadStart(toString(s), 2)

\* UTF-16 code units of the characters of file names
CharCode(c) ==
  IF IsDigit(c) THEN 48 + DigitVal(c)
  ELSE CASE c = "." -> 46 [] c = "/" -> 47 [] c = "_" -> 95
         [] c = "a" -> 97 [] c = "e" -> 101 [] c = "f" -> 102
         [] c = "g" -> 103 [] c = "j" -> 106 [] c = "m" -> 109
         [] c = "p" -> 112 [] c = "r" -> 114 [] c = "t" -> 116
         [] OTHER -> 120

\* a < b in the order Array.prototype.sort() uses without a comparator
RECURSIVE StrLess(_, _)
StrLess(a, b) ==
  IF b = <<>> THEN FALSE
  ELSE IF a = <<>> THEN TRUE
  ELSE IF Head(a) = Head(b) THEN StrLess(Tail(a), Tail(b))
  ELSE CharCode(Head(a)) < CharCode(Head(b))

\* names.sort()
RECURSIVE Sort(_)
Sort(names) ==
  IF names = {} THEN <<>>
  ELSE LET least == CHOOSE a \in names : \A b \in names \ {a} : StrLess(a, b)
       IN <<least>> \o Sort(names \ {least})

StartsWith(str, pre) == Len(str) >= Len(pre) /\ SubSeq(str, 1, Len(pre)) = pre

EndsWith(str, suf) ==
  Len(str) >= Len(suf) /\ SubSeq(str, Len(str) - Len(suf) + 1, Len(str)) = suf

TempPrefix == <<"t", "e", "m", "p", "_">>
FramePrefix == <<"f", "r", "a", "m", "e", "_">>
Jpg == <<".", "j", "p", "g">>
OutputDir == <<"v", "i", "d", "e", "o", "_", "f", "r", "a", "m", "e", "s">>

\* join(outputDir, name)
Join(dir, name) == dir \o <<"/">> \o name

\* the k-th file ffmpeg writes for the pattern temp_%04d.jpg
TempName(k) == TempPrefix \o PadStart(toString(k), 4) \o Jpg

\* readdirSync(outputDir).filter(temp_*.jpg).sort()
TempFilesOf(dir) ==
  Sort({f \in dir : StartsWith(f, TempPrefix) /\ EndsWith(f, Jpg)})

\* ------------------------------------------------ the extractor's inputs
\* process.argv[3] as the server and a user of the script give it
ArgValues ==
  { [given |-> FALSE, text |-> <<>>],
    [given |-> TRUE, text |-> <<"1", "0", "0">>],
    [given |-> TRUE, text |-> <<"4">>],
    [given |-> TRUE, text |-> <<"3">>],
    [given |-> TRUE, text |-> <<"0">>],
    [given |-> TRUE, text |-> <<"-", "2">>],
    [given |-> TRUE, text |-> <<"a", "b", "c">>] }

\* what ffprobe prints for format=duration
ProbeOutputs ==
  { <<"1", "2", "0", ".", "0", "0", "0", "0", "0", "0", "\n">>,
    <<"1", "0", ".", "0", "0", "0", "0", "0", "0", "\n">>,
    <<"3", "7", "2", "5", ".", "5", "0", "0", "0", "0", "0", "\n">>,
    <<"1", "4", "4", "0", "0", ".", "0", "0", "0", "0", "0", "0", "\n">>,
    <<"0", ".", "0", "0", "0", "0", "0", "0", "\n">>,
    <<"N", "/", "A", "\n">> }

\* process.argv[3] || "100"
CountArgument == IF argv3.given /\ argv3.text # <<>> THEN argv3.text ELSE <<"1", "0", "0">>

\* `-vf fps=${fps}` names a frame rate ffmpeg accepts: fps = targetFrames /
\* duration is a finite number above 0
FpsAccepted(n, d) ==
  n.kind = "num" /\ d.kind = "num" /\ d.v # 0 /\ n.v * d.v > 0

\* interval = duration / targetFrames (duration counts thousandths)
Interval(n, d) ==
  IF n.v > 0 THEN RatDiv(Rat(d.v, 1000), n.v) ELSE RatDiv(Rat(-d.v, 1000), -n.v)

\* the renaming loop from index i on; st = [dir, files, offsets]
RECURSIVE RenameFrom(_, _, _, _)
RenameFrom(i, temps, interval, st) ==
  IF i >= Len(temps) THEN st
  ELSE LET seconds == RatTimes(i, interval)
           newName == FramePrefix \o secondsToTimecode(seconds) \o Jpg
       IN RenameFrom(i + 1, temps, interval,
            [dir |-> (st.dir \ {temps[i + 1]}) \cup {newName},
             files |-> Append(st.files, Join(OutputDir, newName)),
             offsets |-> Append(st.offsets, seconds)])

\* ------------------------------------------------- the extractor's steps
ExInit ==
  /\ OrchInit /\ VttIdle /\ SelIdle /\ GenIdle
  /\ epc = "main"
  /\ argv3 \in ArgValues
  /\ videoExists \in BOOLEAN
  /\ targetFrames = NaN
  /\ duration = NaN
  /\ ffmpegRuns = 0
  /\ frameDir = {}
  /\ tempFiles = <<>>
  /\ offsets = <<>>
  /\ files = <<>>
  /\ StoreIdle /\ CodecIdle

\* main up to the await in extractFrames: the argument, the existence check,
\* mkdirSync, and the spawn of ffprobe
ExtractMain ==
  /\ epc = "main"
  /\ targetFrames' = parseInt(CountArgument)
  /\ epc' = IF videoExists THEN "probe" ELSE "exit1"
  /\ UNCHANGED <<argv3, videoExists, duration, ffmpegRuns, frameDir,
                 tempFiles, offsets, files>>
  /\ UNCHANGED exceptEx

\* ffprobe exits with code 0: getVideoDuration resolves, and extractFrames
\* goes on to compute fps and interval and to spawn ffmpeg
ProbeCloses(output) ==
  /\ epc = "probe"
  /\ duration' = parseFloat(Trim(output))
  /\ ffmpegRuns' = ffmpegRuns + 1
  /\ epc' = "decode"
  /\ UNCHANGED <<argv3, videoExists, targetFrames, frameDir, tempFiles,
                 offsets, files>>
  /\ UNCHANGED exceptEx

\* ffprobe fails: the rejection reaches main().catch
ProbeFails ==
  /\ epc = "probe"
  /\ epc' = "exit1"
  /\ UNCHANGED <<argv3, videoExists, targetFrames, duration, ffmpegRuns,
                 frameDir, tempFiles, offsets, files>>
  /\ UNCHANGED exceptEx

\* ffmpeg exits with code 0 after writing count frames; the files are read,
\* sorted and renamed in one synchronous loop
FfmpegCloses(count) ==
  /\ epc = "decode"
  /\ FpsAccepted(targetFrames, duration)
  /\ LET written == frameDir \cup {TempName(k) : k \in 1..count}
         temps == TempFilesOf(written)
         st == RenameFrom(0, temps, Interval(targetFrames, duration),
                          [dir |-> written, files |-> <<>>, offsets |-> <<>>])
     IN /\ tempFiles' = temps
        /\ frameDir' = st.dir
        /\ files' = st.files
        /\ offsets' = st.offsets
  /\ epc' = "done"
  /\ UNCHANGED <<argv3, videoExists, targetFrames, duration, ffmpegRuns>>
  /\ UNCHANGED exceptEx

\* ffmpeg exits with another code (it does for a frame rate it does not
\* accept): the rejection reaches main().catch
FfmpegFails ==
  /\ epc = "decode"
  /\ epc' = "exit1"
  /\ UNCHANGED <<argv3, videoExists, targetFrames, duration, ffmpegRuns,
                 frameDir, tempFiles, offsets, files>>
  /\ UNCHANGED exceptEx

ExNext ==
  \/ ExtractMain
  \/ \E output \in ProbeOutputs : ProbeCloses(output)
  \/ ProbeFails
  \/ \E count \in 0..MaxCount : FfmpegCloses(count)
  \/ FfmpegFails

ExSpec == ExInit /\ [][ExNext]_vars

\* ------------------------------------------------------------------ C12
\* the path of the frame with the id HH_MM_SS of a whole number of seconds
FramePathOf(whole) ==
  Join(OutputDir,
       FramePrefix \o Pad2(whole \div 3600) \o <<"_">> \o Pad2((whole \div 60) % 60)
         \o <<"_">> \o Pad2(whole % 60) \o Jpg)

\* i * (D / N) for the probed duration D and the target count N
NominalOffset(i) == RatTimes(i, Rat(duration.v, 1000 * targetFrames.v))

\* C12: after a run with D > 0 and N > 0 the list has one entry per emitted
\* frame; the i-th frame of the sorted sequence temp_0001, temp_0002, ... has
\* the offset i * (D / N) and the name frame_HH_MM_SS of the truncated hours,
\* minutes and seconds of that offset, each padded to two digits; offsets
\* are strictly increasing and evenly spaced by D / N; D = 120 and N = 4
\* give 00_00_00, 00_00_30, 00_01_00, 00_01_30.
C12_NominalOffsets ==
  epc = "done" =>
    /\ duration.v > 0 /\ targetFrames.v > 0
    /\ Len(files) = Len(tempFiles) /\ Len(offsets) = Len(tempFiles)
    /\ \A i \in 1..Len(tempFiles) :
         /\ tempFiles[i] = TempName(i)
         /\ RatEq(offsets[i], NominalOffset(i - 1))
         /\ files[i] = FramePathOf(Floor(NominalOffset(i - 1)))
    /\ \A i \in 1..(Len(offsets) - 1) :
         /\ RatLess(offsets[i], offsets[i + 1])
         /\ RatEq(RatMinus(offsets[i + 1], offsets[i]), NominalOffset(1))
    /\ (duration = Num(120000) /\ targetFrames = Num(4) /\ Len(tempFiles) = 4) =>
         files = << FramePathOf(0), FramePathOf(30), FramePathOf(60), FramePathOf(90) >>

\* D = 14400, N = 4 and four emitted frames: the second one is frame_01_00_00
C12_Witness ==
  /\ epc = "done"
  /\ duration = Num(14400000) /\ targetFrames = Num(4)
  /\ Len(files) = 4
  /\ files[2] = Join(OutputDir, FramePrefix \o <<"0", "1", "_", "0", "0", "_", "0", "0">> \o Jpg)
  /\ offsets[2] = Rat(3600, 1)

\* ------------------------------------------------------------------ C13
\* the probed duration and the target count are both numbers above 0
ValidExtraction ==
  /\ duration.kind = "num" /\ duration.v > 0
  /\ targetFrames.kind = "num" /\ targetFrames.v > 0

\* C13: with a probed duration <= 0 or a target count N <= 0 (or not a
\* number) the extractor fails before ffmpeg is invoked, and no frame file
\* is created or renamed: ffmpeg has run only in a valid extraction.
C13_ValidatedBeforeDecoder ==
  /\ ffmpegRuns > 0 => ValidExtraction
  /\ frameDir # {} => ValidExtraction

\* ======================================================================
\* Part 4: the frame selectors.  A greyscale buffer is [width, data] with
\* data the sequence of its bytes (data[i] of the code is data[i + 1] here).
\* A score is [kind, sign, sq]: the number sign * sqrt(sq), sq a fraction,
\* or NaN; square roots are never taken, scores are compared through sq.
\* ======================================================================

\* most frames of a frame list
MaxFrames == 4

\* basename(path)
RECURSIVE basename(_)
basename(path) ==
  LET i == IndexOf(path, <<"/">>)
  IN IF i = 0 THEN path ELSE basename(SubSeq(path, i + 1, Len(path)))

\* where /(\d{2})_(\d{2})_(\d{2})/ matches at position p of str
TimecodeAt(str, p) ==
  /\ p + 7 <= Len(str)
  /\ \A k \in {0, 1, 3, 4, 6, 7} : IsDigit(str[p + k])
  /\ str[p + 2] = "_" /\ str[p + 5] = "_"

\* timecodeToSeconds that leaves the hours out
timecodeToSecondsOfHour(timecode) ==
  LET hits == {p \in 1..Len(timecode) : TimecodeAt(timecode, p)}
  IN IF hits = {} THEN 0
     ELSE LET p == CHOOSE q \in hits : \A r \in hits : q <= r
          IN parseInt(SubSeq(timecode, p + 3, p + 4)).v * 60
               + parseInt(SubSeq(timecode, p + 6, p + 7)).v

timecodeToSeconds(timecode) ==
  LET hits == {p \in 1..Len(timecode) : TimecodeAt(timecode, p)}
  IN IF hits = {} THEN 0
     ELSE LET p == CHOOSE q \in hits : \A r \in hits : q <= r
          IN parseInt(SubSeq(timecode, p, p + 1)).v * 3600
               + parseInt(SubSeq(timecode, p + 3, p + 4)).v * 60
               + parseInt(SubSeq(timecode, p + 6, p + 7)).v

\* frames[0] of an empty array
Undefined == <<"undefined">>

\* the loop of findNearestFrame from frame k on
RECURSIVE NearestFrom(_, _, _, _, _)
NearestFrom(list, target, k, nearest, minDiff) ==
  IF k > Len(list) THEN nearest
  ELSE LET diff == Abs(timecodeToSeconds(basename(list[k])) - target)
       IN IF minDiff < 0 \/ diff < minDiff
            THEN NearestFrom(list, target, k + 1, list[k], diff)
            ELSE NearestFrom(list, target, k + 1, nearest, minDiff)

\* findNearestFrame that also takes a frame at the same distance
RECURSIVE NearestFromLast(_, _, _, _, _)
NearestFromLast(list, target, k, nearest, minDiff) ==
  IF k > Len(list) THEN nearest
  ELSE LET diff == Abs(timecodeToSeconds(basename(list[k])) - target)
       IN IF minDiff < 0 \/ diff <= minDiff
            THEN NearestFromLast(list, target, k + 1, list[k], diff)
            ELSE NearestFromLast(list, target, k + 1, nearest, minDiff)

findNearestFrameLast(list, target) ==
  NearestFromLast(list, target, 1, IF list = <<>> THEN Undefined ELSE list[1], -1)

\* minDiff = Infinity is written -1
findNearestFrame(list, target) ==
  NearestFrom(list, target, 1, IF list = <<>> THEN Undefined ELSE list[1], -1)

\* i is an index of the Buffer (data[i] is undefined otherwise)
InBuffer(data, i) == i >= 0 /\ i < Len(data)

\* laplacian * laplacian for pixel i: NaN when one of the five reads is
\* undefined
SquaredLaplacian(data, width, i) ==
  IF \A j \in {i, i - 1, i + 1, i - width, i + width} : InBuffer(data, j)
    THEN LET laplacian == -4 * data[i + 1] + data[i] + data[i + 2]
                            + data[i - width + 1] + data[i + width + 1]
         IN Num(laplacian * laplacian)
    ELSE NaN

\* the pixels the loop does not skip
Visited(data, width) ==
  {i \in 1..(Len(data) - 2) : i % width # 0 /\ i % width # width - 1}

RECURSIVE SumSquares(_, _, _)
SumSquares(data, width, todo) ==
  IF todo = {} THEN 0
  ELSE LET i == CHOOSE j \in todo : TRUE
       IN SquaredLaplacian(data, width, i).v + SumSquares(data, width, todo \ {i})

\* `variance` after the loop
Variance(data, width) ==
  IF \E i \in Visited(data, width) : SquaredLaplacian(data, width, i) = NaN
    THEN NaN
    ELSE Num(SumSquares(data, width, Visited(data, width)))

Sign(n) == IF n > 0 THEN 1 ELSE IF n < 0 THEN -1 ELSE 0

\* Math.sqrt(q) for a fraction q >= 0
Root(q) == [kind |-> "num", sign |-> Sign(q.n), sq |-> q]

NaNScore == [kind |-> "NaN", sign |-> 0, sq |-> Rat(0, 1)]

Zero == Root(Rat(0, 1))

\* a * f for a score a and a fraction f
ScoreTimes(a, f) ==
  IF a.kind = "NaN" THEN NaNScore
  ELSE [kind |-> "num", sign |-> a.sign * Sign(f.n),
        sq |-> Rat(a.sq.n * f.n * f.n, a.sq.d * f.d * f.d)]

\* a > b
Greater(a, b) ==
  /\ a.kind = "num" /\ b.kind = "num"
  /\ \/ a.sign > b.sign
     \/ a.sign = 1 /\ b.sign = 1 /\ RatLess(b.sq, a.sq)
     \/ a.sign = -1 /\ b.sign = -1 /\ RatLess(a.sq, b.sq)

\* Math.sqrt(variance / data.length) of the temporal selector
InlineScore(img) ==
  LET variance == Variance(img.data, img.width)
  IN IF variance.kind = "NaN" THEN NaNScore
     ELSE Root(Rat(variance.v, Len(img.data)))

RECURSIVE SumBytes(_)
SumBytes(data) == IF data = <<>> THEN 0 ELSE Head(data) + SumBytes(Tail(data))

\* analyzeImage with the brightness left on the scale of the bytes (0..255)
analyzeImageByteBrightness(path, img) ==
  LET len == Len(img.data)
      brightness == Rat(SumBytes(img.data), len)
      variance == Variance(img.data, img.width)
      sharpness == IF variance.kind = "NaN" THEN NaNScore
                   ELSE Root(Rat(variance.v, len * 255 * 255))
      half == RatMinus(brightness, Rat(1, 2))
      brightnessPenalty == Rat(2 * Abs(half.n), half.d)
  IN [path |-> path, sharpness |-> sharpness, brightness |-> brightness,
      score |-> ScoreTimes(sharpness, RatMinus(Rat(1, 1), brightnessPenalty))]

analyzeImage(path, img) ==
  LET len == Len(img.data)
      brightness == Rat(SumBytes(img.data), len * 255)
      variance == Variance(img.data, img.width)
      sharpness == IF variance.kind = "NaN" THEN NaNScore
                   ELSE Root(Rat(variance.v, len * 255 * 255))
      half == RatMinus(brightness, Rat(1, 2))
      brightnessPenalty == Rat(2 * Abs(half.n), half.d)
  IN [path |-> path, sharpness |-> sharpness, brightness |-> brightness,
      score |-> ScoreTimes(sharpness, RatMinus(Rat(1, 1), brightnessPenalty))]

\* ------------------------------------------------- the selectors' inputs
\* 3 x 3 frames: flat grey; one pixel next to the centre darker by 1; the
\* centre brighter and its four neighbours darker by 1
GreyFrame == [width |-> 3, data |-> <<128, 128, 128, 128, 128, 128, 128, 128, 128>>]
SoftFrame == [width |-> 3, data |-> <<128, 128, 128, 127, 128, 128, 128, 128, 128>>]
SharpFrame == [width |-> 3, data |-> <<128, 127, 128, 127, 129, 127, 128, 127, 128>>]

FramePool == {GreyFrame, SoftFrame, SharpFrame}

\* uniformly grey buffers of several sizes, widths 1 and 2 included
GreyLevels == {0, 128, 255}
GreyWidths == {1, 2, 3, 4}
GreyHeights == {1, 2, 3}

GreyImage(w, h, v) == [width |-> w, data |-> [k \in 1..(w * h) |-> v]]

GreyImages == {GreyImage(w, h, v) : w \in GreyWidths, h \in GreyHeights, v \in GreyLevels}

\* nominal offsets of the frames in the directory
OffsetPool == {0, 30, 60, 90, 120, 1000}

\* the directories main can find: up to MaxFrames frames, or all of them
OffsetSets ==
  {S \in SUBSET OffsetPool : Cardinality(S) <= MaxFrames} \cup {OffsetPool}

\* readdirSync(framesDir).filter(.jpg).sort().map(join) for the frames of S
FrameList(S) ==
  LET names == Sort({basename(FramePathOf(o)) : o \in S})
  IN [k \in 1..Len(names) |-> Join(OutputDir, names[k])]

\* section.startTime values
TargetTimes == {50, 180, 500, 560}

\* windowSeconds, which main leaves at its default
WindowSeconds == 120

\* numImages values
GroupCounts == {1, 2, 3, 4}

\* the buffer sharp decodes for a frame of the list
PixelsOf(path) == pixels[CHOOSE k \in 1..Len(frames) : frames[k] = path]

\* --------------------------------------------------- the selectors' steps
SelInit ==
  /\ OrchInit /\ VttIdle /\ ExIdle /\ GenIdle
  /\ \/ \E S \in OffsetSets :
          /\ frames = FrameList(S)
          /\ pixels \in [1..Cardinality(S) -> FramePool]
     \/ /\ frames = FrameList({0})
        /\ pixels \in [1..1 -> GreyImages]
  /\ \/ spc = "call" /\ targetTime \in TargetTimes /\ numImages = 0
     \/ spc = "list" /\ targetTime = 0 /\ numImages \in GroupCounts
  /\ candidates = <<>>
  /\ best = <<>>
  /\ bestScore = Zero
  /\ lastScore = Zero
  /\ idx = 1
  /\ returned = <<>>
  /\ scores = <<>>
  /\ selected = <<>>
  /\ StoreIdle /\ CodecIdle

\* frames.filter(...) of analyzeAndSelectBestFrame
InWindow(list, target, window) ==
  SelectSeq(list, LAMBDA f : Abs(timecodeToSeconds(basename(f)) - target) <= window)

\* analyzeAndSelectBestFrame up to its first await: the filter, and the
\* return of findNearestFrame when no frame is in the window
SelectCall ==
  /\ spc = "call"
  /\ LET cands == InWindow(frames, targetTime, WindowSeconds)
     IN /\ candidates' = cands
        /\ IF cands = <<>>
             THEN /\ returned' = findNearestFrame(frames, targetTime)
                  /\ spc' = "returned"
                  /\ UNCHANGED best
             ELSE /\ best' = cands[1]
                  /\ spc' = "scoring"
                  /\ UNCHANGED returned
  /\ bestScore' = Zero
  /\ UNCHANGED <<frames, pixels, targetTime, numImages, lastScore, idx, scores, selected>>
  /\ UNCHANGED exceptSel

\* one iteration of the scoring loop, after sharp resolved; the last one
\* goes on to `return best`
ScoreFrame ==
  /\ spc = "scoring"
  /\ LET frame == candidates[idx]
         score == InlineScore(PixelsOf(frame))
         better == Greater(score, bestScore)
         newBest == IF better THEN frame ELSE best
     IN /\ lastScore' = score
        /\ bestScore' = IF better THEN score ELSE bestScore
        /\ best' = newBest
        /\ IF idx = Len(candidates)
             THEN returned' = newBest /\ spc' = "returned"
             ELSE UNCHANGED <<returned, spc>>
  /\ idx' = idx + 1
  /\ UNCHANGED <<frames, pixels, targetTime, numImages, candidates, scores, selected>>
  /\ UNCHANGED exceptSel

\* group.reduce((a, b) => (a.score > b.score ? a : b)) of a non-empty group
RECURSIVE Reduce(_, _)
Reduce(a, rest) ==
  IF rest = <<>> THEN a
  ELSE Reduce(IF Greater(a.score, Head(rest).score) THEN a ELSE Head(rest), Tail(rest))

\* the group loop from group g on; reduce of an empty group throws
RECURSIVE SelectGroups(_, _, _, _, _)
SelectGroups(g, k, groupSize, scs, acc) ==
  IF g >= k THEN [threw |-> FALSE, selected |-> acc]
  ELSE LET start == g * groupSize
           end == IF start + groupSize < Len(scs) THEN start + groupSize ELSE Len(scs)
           group == SubSeq(scs, start + 1, end)
       IN IF group = <<>> THEN [threw |-> TRUE, selected |-> acc]
          ELSE SelectGroups(g + 1, k, groupSize, scs,
                            Append(acc, Reduce(Head(group), Tail(group)).path))

\* Math.ceil(n / k) for n >= 0, k > 0
Ceil(n, k) == (n + k - 1) \div k

\* selectBestImages up to its first await: the listing and the check of
\* files.length
ListFrames ==
  /\ spc = "list"
  /\ spc' = IF Len(frames) = 0 THEN "threw" ELSE "analyzing"
  /\ UNCHANGED <<frames, pixels, targetTime, numImages, candidates, best,
                 bestScore, lastScore, idx, returned, scores, selected>>
  /\ UNCHANGED exceptSel

\* one iteration of the analysis loop, after analyzeImage resolved; the
\* last one goes on to the group loop
AnalyzeFrame ==
  /\ spc = "analyzing"
  /\ LET score == analyzeImage(frames[idx], pixels[idx])
         all == Append(scores, score)
     IN /\ scores' = all
        /\ lastScore' = score.sharpness
        /\ IF idx = Len(frames)
             THEN LET r == SelectGroups(0, numImages, Ceil(Len(frames), numImages), all, <<>>)
                  IN /\ selected' = r.selected
                     /\ spc' = IF r.threw THEN "threw" ELSE "returned"
             ELSE UNCHANGED <<selected, spc>>
  /\ idx' = idx + 1
  /\ UNCHANGED <<frames, pixels, targetTime, numImages, candidates, best,
                 bestScore, returned>>
  /\ UNCHANGED exceptSel

SelNext == SelectCall \/ ScoreFrame \/ ListFrames \/ AnalyzeFrame

SelSpec == SelInit /\ [][SelNext]_vars

\* ---------------------------------------------------------- C14 .. C18
\* the run is one of analyzeAndSelectBestFrame / of selectBestImages
Temporal == spc \in {"call", "scoring", "returned"} /\ numImages = 0
FixedCount == numImages > 0

\* all pixels of the buffer are equal
Uniform(img) == \A i, j \in 1..Len(img.data) : img.data[i] = img.data[j]

\* the buffer the latest iteration of the running loop scored
LastScored ==
  IF Temporal THEN PixelsOf(candidates[idx - 1]) ELSE pixels[idx - 1]

\* an iteration of a scoring loop has been made
Scored == spc \in {"scoring", "analyzing", "returned", "threw"} /\ idx > 1

\* C14: the sharpness loops visit only pixels whose four neighbours are in
\* the buffer, and the sharpness of a uniformly grey image of width >= 3 is
\* exactly 0, in analyzeImage and in the inline scoring of the temporal
\* selector.
C14_GreySharpnessZero ==
  Scored =>
    /\ \A i \in Visited(LastScored.data, LastScored.width) :
         \A j \in {i - 1, i + 1, i - LastScored.width, i + LastScored.width} :
           InBuffer(LastScored.data, j)
    /\ (Uniform(LastScored) /\ LastScored.width >= 3) => lastScore = Zero

\* the nominal offset a frame path was written for
OffsetOf(path) == CHOOSE o \in OffsetPool : FramePathOf(o) = path

\* the pixels of section 4.3: not in the first or last column, and with the
\* rows above and below in the buffer
Interior(img) ==
  {i \in 0..(Len(img.data) - 1) :
     /\ i % img.width # 0 /\ i % img.width # img.width - 1
     /\ i - img.width >= 0 /\ i + img.width < Len(img.data)}

\* the score of section 4.3 up to a factor common to buffers of one size:
\* (sum of the squared Laplacians of the interior) * (1 - 2|b - 0.5|)^2
\* with the second factor scaled by the number of bytes * 255
QualityOf(img) ==
  LET full == Len(img.data) * 255
      margin == full - Abs(2 * SumBytes(img.data) - full)
  IN SumSquares(img.data, img.width, Interior(img)) * margin * margin

\* the frames of the list within the window of the target
WindowFrames ==
  {frames[k] : k \in {j \in 1..Len(frames) :
     Abs(OffsetOf(frames[j]) - targetTime) <= WindowSeconds}}

\* C15: with a frame in the window, the temporal selector returns a frame
\* of the window with the maximal score of section 4.3, the earliest one
\* among those of maximal score; the candidates are exactly the frames with
\* |offset - t| <= W.
C15_BestOfWindow ==
  (Temporal /\ spc = "returned" /\ WindowFrames # {}) =>
    /\ {candidates[k] : k \in 1..Len(candidates)} = WindowFrames
    /\ returned \in WindowFrames
    /\ \A f \in WindowFrames :
         /\ QualityOf(PixelsOf(f)) <= QualityOf(PixelsOf(returned))
         /\ QualityOf(PixelsOf(f)) = QualityOf(PixelsOf(returned))
              => OffsetOf(returned) <= OffsetOf(f)

\* C16: with frames but none in the window, the temporal selector returns
\* a frame of the list at the least distance from the target, the earliest
\* one among those at that distance.
C16_NearestOutsideWindow ==
  (Temporal /\ spc = "returned" /\ frames # <<>> /\ WindowFrames = {}) =>
    /\ \E k \in 1..Len(frames) : frames[k] = returned
    /\ \A k \in 1..Len(frames) :
         LET d == Abs(OffsetOf(frames[k]) - targetTime)
             r == Abs(OffsetOf(returned) - targetTime)
         IN /\ r <= d
            /\ r = d => OffsetOf(returned) <= OffsetOf(frames[k])

\* frames at 120 and 1000, target 560: both are 440 away, 120 is returned
C16_Witness ==
  /\ Temporal /\ spc = "returned" /\ targetTime = 560
  /\ WindowFrames = {}
  /\ \E k \in 1..Len(frames) : frames[k] = FramePathOf(1000)
  /\ returned = FramePathOf(120)

\* C17: called with an empty frame list, the temporal selector fails with
\* an error; it never returns, and never an undefined frame.
C17_EmptyListFails ==
  (Temporal /\ spc = "returned") => (frames # <<>> /\ returned # Undefined)

\* the slice of group g (0-based) of the ordered frames
GroupOf(g) ==
  LET size == Ceil(Len(frames), numImages)
      last == IF (g + 1) * size < Len(frames) THEN (g + 1) * size ELSE Len(frames)
  IN {k \in 1..Len(frames) : g * size < k /\ k <= last}

\* C18: for every frame count >= 1 and K >= 1 the fixed-count mode does
\* not fail and returns K selections, the g-th one a frame of group g with
\* the highest score of that group.
C18_KSelections ==
  (FixedCount /\ Len(frames) >= 1 /\ spc \in {"returned", "threw"}) =>
    /\ spc = "returned"
    /\ Len(selected) = numImages
    /\ \A g \in 0..(numImages - 1) :
         \E k \in GroupOf(g) :
           /\ selected[g + 1] = frames[k]
           /\ \A j \in GroupOf(g) : QualityOf(pixels[j]) <= QualityOf(pixels[k])

\* ======================================================================
\* Part 5: the image loop of main in generate-html.ts.  The bytes of a
\* file are [generated, source]: the bytes of the frame `source`, or the
\* image the service generated from it.
\* ======================================================================

\* most sections generateSections returns
MaxSections == 2

\* the scoring loop of analyzeAndSelectBestFrame from candidate k on
RECURSIVE BestFrom(_, _, _, _)
BestFrom(cands, k, bst, bstScore) ==
  IF k > Len(cands) THEN bst
  ELSE LET score == InlineScore(PixelsOf(cands[k]))
       IN IF Greater(score, bstScore)
            THEN BestFrom(cands, k + 1, cands[k], score)
            ELSE BestFrom(cands, k + 1, bst, bstScore)

\* what analyzeAndSelectBestFrame(frames, targetTime) resolves with
analyzeAndSelectBestFrame(list, target, window) ==
  LET cands == InWindow(list, target, window)
  IN IF cands = <<>> THEN findNearestFrame(list, target)
     ELSE BestFrom(cands, 1, cands[1], Zero)

FramesSuffix == <<"_", "f", "r", "a", "m", "e", "s">>
OutputSuffix == <<"_", "o", "u", "t", "p", "u", "t">>

\* framesDir.replace(/_frames$/, "_output")
OutputDirOf(dir) ==
  IF EndsWith(dir, FramesSuffix)
    THEN SubSeq(dir, 1, Len(dir) - Len(FramesSuffix)) \o OutputSuffix
    ELSE dir

\* join(outputDir, `section_${i + 1}.png`) for the i-th section, from 1
SectionPath(i) ==
  Join(OutputDirOf(OutputDir),
       <<"s", "e", "c", "t", "i", "o", "n", "_">> \o toString(i) \o <<".", "p", "n", "g">>)

FrameBytes(frame) == [generated |-> FALSE, source |-> frame]

GeneratedBytes(frame) == [generated |-> TRUE, source |-> frame]

\* writeFileSync(path, bytes) and copyFileSync(src, path) on the directory
WriteFile(dir, path, bytes) == (path :> bytes) @@ dir

\* the frame directories and section lists of the runs
GenOffsetSets == {{}, {1000}, {0, 30}, {0, 120, 1000}}

SectionTimes == {50, 560}

SectionLists == UNION {[1..n -> SectionTimes] : n \in 0..MaxSections}

\* how the image service answers one request
ServiceAnswers == {"image", "no image", "throws"}

GenInit ==
  /\ OrchInit /\ VttIdle /\ ExIdle
  /\ \E S \in GenOffsetSets :
       /\ frames = FrameList(S)
       /\ pixels \in [1..Cardinality(S) -> {GreyFrame}]
  /\ spc = "idle" /\ targetTime = 0 /\ numImages = 0 /\ candidates = <<>>
  /\ best = <<>> /\ bestScore = Zero /\ lastScore = Zero /\ idx = 1
  /\ returned = <<>> /\ scores = <<>> /\ selected = <<>>
  /\ gpc = "sections"
  /\ sections = <<>>
  /\ picked = <<>>
  /\ outcomes = <<>>
  /\ outDir = <<>>
  /\ outputImages = <<>>
  /\ StoreIdle /\ CodecIdle

\* generateSections resolves; mkdirSync; the loop starts, or with no
\* section the HTML is written at once
SectionsResolve(list) ==
  /\ gpc = "sections"
  /\ sections' = list
  /\ gpc' = IF list = <<>> THEN "done" ELSE "select"
  /\ UNCHANGED <<picked, outcomes, outDir, outputImages>>
  /\ UNCHANGED exceptGen

\* a request to the text service fails: main().catch
SectionsFail ==
  /\ gpc = "sections"
  /\ gpc' = "exit1"
  /\ UNCHANGED <<sections, picked, outcomes, outDir, outputImages>>
  /\ UNCHANGED exceptGen

\* analyzeAndSelectBestFrame resolves; basename(selectedFrame) throws for
\* undefined; transformImage reads the frame and sends the request
SelectFrame ==
  /\ gpc = "select"
  /\ LET i == Len(outputImages) + 1
         selectedFrame == analyzeAndSelectBestFrame(frames, sections[i], WindowSeconds)
     IN IF selectedFrame = Undefined
          THEN gpc' = "exit1" /\ UNCHANGED picked
          ELSE gpc' = "transform" /\ picked' = Append(picked, selectedFrame)
  /\ UNCHANGED <<sections, outcomes, outDir, outputImages>>
  /\ UNCHANGED exceptGen

\* the end of an iteration: push, and after the last section the HTML
AfterTransform(i) ==
  /\ outputImages' = Append(outputImages, SectionPath(i))
  /\ gpc' = IF i = Len(sections) THEN "done" ELSE "select"

\* catch of main that lets the failure go on to main().catch
CatchRethrows(i, answer) ==
  /\ gpc' = "exit1"
  /\ outcomes' = Append(outcomes, answer)
  /\ UNCHANGED <<outDir, outputImages>>

\* catch (err) { copyFileSync(selectedFrame, outputPath) }
CatchCopies(i, answer) ==
  /\ outDir' = WriteFile(outDir, SectionPath(i), FrameBytes(picked[i]))
  /\ outcomes' = Append(outcomes, answer)
  /\ AfterTransform(i)

\* the image service answers the request of transformImage
Transform(answer) ==
  /\ gpc = "transform"
  /\ LET i == Len(outputImages) + 1
     IN CASE answer = "image" ->
               /\ outDir' = WriteFile(outDir, SectionPath(i), GeneratedBytes(picked[i]))
               /\ outcomes' = Append(outcomes, answer)
               /\ AfterTransform(i)
          [] answer = "no image" ->
               /\ outDir' = WriteFile(outDir, SectionPath(i), FrameBytes(picked[i]))
               /\ outcomes' = Append(outcomes, answer)
               /\ AfterTransform(i)
          [] answer = "throws" -> CatchCopies(i, answer)
  /\ UNCHANGED <<sections, picked>>
  /\ UNCHANGED exceptGen

GenNext ==
  \/ \E list \in SectionLists : SectionsResolve(list)
  \/ SectionsFail
  \/ SelectFrame
  \/ \E answer \in ServiceAnswers : Transform(answer)

GenSpec == GenInit /\ [][GenNext]_vars

\* ------------------------------------------------------------------ C19
\* the service failed for section i: it threw, or answered without an image
TransformFailed(i) == outcomes[i] \in {"throws", "no image"}

\* C19: a failed transformation of one section does not fail the generate
\* step: the output image of that section is a byte copy of the selected
\* frame, the loop goes on with the next section, and at the end there is
\* one output image per section, in section order.
C19_State ==
  /\ Len(outcomes) = Len(outputImages)
  /\ \A i \in 1..Len(outputImages) :
       /\ outputImages[i] = SectionPath(i)
       /\ SectionPath(i) \in DOMAIN outDir
       /\ TransformFailed(i) => outDir[SectionPath(i)] = FrameBytes(picked[i])
  /\ gpc = "done" => Len(outputImages) = Len(sections)

C19_Step ==
  gpc = "transform" =>
    /\ gpc' # "exit1"
    /\ Len(outputImages') = Len(outputImages) + 1
    /\ gpc' = IF Len(outputImages') < Len(sections) THEN "select" ELSE "done"

C19_TransformFailureRecovered == [](C19_State) /\ [][C19_Step]_vars

\* two sections, the first transformation threw, the second one answered
\* without an image, and the step ended with both images
C19_Witness ==
  /\ gpc = "done"
  /\ outcomes = <<"throws", "no image">>
  /\ Len(outputImages) = 2
  /\ outDir[SectionPath(1)] = FrameBytes(picked[1])

\* ------------------------------------------------------------------ C20
\* handler r is between its admission and the close of its stream
InFlight(r) ==
  pc[r] \in {"switch", "spawn", "running", "resolved", "rejected", "finish"}

\* C20: run requests on one Job are not mutually excluded: while a run is
\* in flight and a handler is free, a request for each step is admitted, and
\* a run admitted beside another one writes its status and spawns its own
\* process.  (The race itself, a status pending or completed beside a live
\* process of the other run, is the state of C20_Witness.)
C20_NotExcluded ==
  \A r \in Runs : InFlight(r) =>
    /\ (\E q \in Runs : pc[q] = "idle") =>
         \A s \in StepNames : ENABLED (\E q \in Runs \ {r} : Admit(q, s))
    /\ \A q \in Runs \ {r} :
         /\ (pc[q] = "switch" /\ step[q] \in KnownSteps) => ENABLED Begin(q)
         /\ pc[q] = "spawn" => ENABLED Spawn(q)

\* one run has closed with done and its last status, pending or completed,
\* is the status of the Job, while the process of the other run is alive
C20_Witness ==
  \E r \in Runs : \E q \in Runs \ {r} :
    /\ pc[r] = "closed" /\ HasType(events[r], "done") /\ writes[r] # <<>>
    /\ pc[q] = "running" /\ Last(procs[q]).state = "alive"
    /\ \A p \in db : /\ p.status \in {"pending", "completed"}
                     /\ p.status = Last(Statuses(writes[r]))

\* ======================================================================
\* Part 6: the storage of the project.  The run route spawns its scripts
\* with paths under the project directory, the scripts read and write
\* there, and DELETE /api/projects/:id removes the directory and the row.
\* One request is followed at a time; its handler is the one of Part 1.
\* ======================================================================
StoreRuns == {1}

\* the frame files ffmpeg and the rename loop leave in outputDir
FrameNames == {"frame_00_00_00.jpg", "frame_00_00_01.jpg"}

\* section_N.png, the image main of generate-html.ts writes for a section
SectionName == "section_1.png"

\* how many sections the language model answered with
SectionCounts == {0, 1}

\* the script of the process request r is waiting for
ScriptOf(r) == procs[r][Len(procs[r])].script

\* readdirSync(dir).filter((f) => f.endsWith(".jpg")): the names of the
\* frames of a directory of the project
JpgNames(dir) ==
  {name \in FrameNames : dir \o <<name>> \in disk}

\* what a script reads when it starts: existsSync(videoPath) of transcribe.ts
\* and extract-frames.ts, readFileSync(vttPath) and readdirSync(framesDir) of
\* generate-html.ts
Inputs(s) ==
  IF s = "generate-html.ts" THEN {VttPath, FramesDir} ELSE {VideoPath}

\* mkdirSync(outputDir, { recursive: true }): the directories it creates.
\* For generate-html.ts outputDir is framesDir.replace(/_frames$/, "_output"),
\* which is framesDir itself when the name is "frames"
Mkdirs(s) ==
  CASE s = "extract-frames.ts" -> {ProjectDir, ExtractOutputDir}
    [] s = "generate-html.ts"  -> {ProjectDir, FramesDir}
    [] OTHER                   -> {}

\* what the tools of a script need on storage to write their output: ffmpeg
\* and whisper-cli of transcribe.ts, ffprobe and ffmpeg of extract-frames.ts,
\* and for generate-html.ts the selected frame of every section (frame is
\* <<>> when the list of frames is empty and nothing can be selected)
Needed(s, n, frame) ==
  CASE s = "transcribe.ts"     -> {ProjectDir, VideoPath}
    [] s = "extract-frames.ts" -> {VideoPath, ExtractOutputDir}
    [] OTHER -> {ProjectDir} \cup
                (IF n = 0 THEN {} ELSE {FramesDir \o <<frame>>})

\* what the tools of a script write
Written(s, F, n) ==
  CASE s = "transcribe.ts"     -> {WavPath, VttPath}
    [] s = "extract-frames.ts" -> {ExtractOutputDir \o <<name>> : name \in F}
    [] OTHER -> {HtmlPath} \cup
                (IF n = 0 THEN {} ELSE {FramesDir \o <<SectionName>>})

\* the frames analyzeAndSelectBestFrame can return: one of the list, or
\* undefined (here "undefined", which names no file) when the list is empty
Selectable == IF seen = {} THEN {"undefined"} ELSE seen

exceptStore == <<vttVars, exVars, selVars, genVars, codecVars>>

\* runScript with no process left over from the previous call
StoreSpawn(r) ==
  /\ child = "none"
  /\ Spawn(r)

\* main of the spawned script starts and checks its inputs; the scripts end
\* with process.exit(1) when one is missing
ScriptMain(r) ==
  /\ pc[r] = "running"
  /\ child = "none"
  /\ IF Inputs(ScriptOf(r)) \subseteq disk
       THEN /\ child' = "checked"
            /\ seen' = IF ScriptOf(r) = "generate-html.ts"
                         THEN JpgNames(FramesDir) ELSE seen
       ELSE /\ child' = "exit1"
            /\ seen' = seen
  /\ UNCHANGED <<disk, dpc>>
  /\ UNCHANGED <<orchVars, exceptStore>>

\* mkdirSync(outputDir, { recursive: true }) of extract-frames.ts and
\* generate-html.ts
ScriptMkdir(r) ==
  /\ pc[r] = "running"
  /\ child = "checked"
  /\ Mkdirs(ScriptOf(r)) # {}
  /\ disk' = disk \cup Mkdirs(ScriptOf(r))
  /\ child' = "made"
  /\ UNCHANGED <<dpc, seen>>
  /\ UNCHANGED <<orchVars, exceptStore>>

\* the tools of the script run and main returns, or one of them fails on a
\* missing file and the script ends with process.exit(1)
ScriptWrites(r, F, n, frame) ==
  /\ pc[r] = "running"
  /\ \/ child = "made"
     \/ child = "checked" /\ Mkdirs(ScriptOf(r)) = {}
  /\ frame \in Selectable
  /\ IF Needed(ScriptOf(r), n, frame) \subseteq disk
       THEN /\ disk' = disk \cup Written(ScriptOf(r), F, n)
            /\ child' = "exit0"
       ELSE /\ disk' = disk
            /\ child' = "exit1"
  /\ UNCHANGED <<dpc, seen>>
  /\ UNCHANGED <<orchVars, exceptStore>>

\* a tool or a request to the language model fails for a reason of its own
ScriptFails(r) ==
  /\ pc[r] = "running"
  /\ child \in {"checked", "made"}
  /\ child' = "exit1"
  /\ UNCHANGED <<disk, dpc, seen>>
  /\ UNCHANGED <<orchVars, exceptStore>>

\* the exit code of a script that has ended
ExitCode == IF child = "exit0" THEN 0 ELSE 1

\* proc.on("close") for the script that has ended
StoreClose(r) ==
  /\ child \in {"exit0", "exit1"}
  /\ ProcClose(r, ExitCode)

\* proc.on("error"): no script ever ran
StoreError(r) ==
  /\ child = "none"
  /\ ProcError(r)

\* the handler has settled on the ended process and holds it no longer
ScriptGone(r) ==
  /\ pc[r] # "running"
  /\ child \in {"exit0", "exit1"}
  /\ child' = "none"
  /\ seen' = {}
  /\ UNCHANGED <<disk, dpc>>
  /\ UNCHANGED <<orchVars, exceptStore>>

\* DELETE /api/projects/:id: getProject found the row
DeleteFinds ==
  /\ dpc = "idle"
  /\ getProject # {}
  /\ dpc' = "found"
  /\ UNCHANGED <<disk, child, seen>>
  /\ UNCHANGED <<orchVars, exceptStore>>

\* rmSync(projectDir, { recursive: true, force: true }) and deleteProject(id)
DeleteRemoves ==
  /\ dpc = "found"
  /\ disk' = {}
  /\ db' = {}
  /\ dpc' = "done"
  /\ UNCHANGED <<child, seen>>
  /\ UNCHANGED <<pc, step, phase, err, events, procs, writes, outputs>>
  /\ UNCHANGED exceptStore

StoreInit == Init

StoreNext ==
  \/ \E r \in StoreRuns, s \in StepNames : Admit(r, s)
  \/ \E r \in StoreRuns : Begin(r)
  \/ \E r \in StoreRuns : Default(r)
  \/ \E r \in StoreRuns : StoreSpawn(r)
  \/ \E r \in StoreRuns : ProcOutput(r)
  \/ \E r \in StoreRuns : StoreClose(r)
  \/ \E r \in StoreRuns : StoreError(r)
  \/ \E r \in StoreRuns : Succeed(r)
  \/ \E r \in StoreRuns : Finish(r)
  \/ \E r \in StoreRuns : Catch(r)
  \/ \E r \in StoreRuns : Release(r)
  \/ \E r \in StoreRuns : ScriptMain(r)
  \/ \E r \in StoreRuns : ScriptMkdir(r)
  \/ \E r \in StoreRuns, F \in SUBSET FrameNames \ {{}}, n \in SectionCounts,
        frame \in FrameNames \cup {"undefined"} : ScriptWrites(r, F, n, frame)
  \/ \E r \in StoreRuns : ScriptFails(r)
  \/ \E r \in StoreRuns : ScriptGone(r)
  \/ DeleteFinds
  \/ DeleteRemoves

StoreSpec == StoreInit /\ [][StoreNext]_vars

\* C21: once DELETE /api/projects/:id has answered, neither the row of the
\* project nor any path under its directory exists, and none comes back,
\* also when a run of the project was in flight at the deletion
C21_DeletedStaysDeleted ==
  dpc = "done" => db = {} /\ disk = {}

\* the script of request r has listed its frames directory and is running
GenerateListed(r) ==
  /\ pc[r] = "running"
  /\ ScriptOf(r) = "generate-html.ts"
  /\ child \in {"checked", "made"}

\* C26: the directory the run route hands to the generate step is the one the
\* extract step wrote to: once extract has succeeded on the project, the frames
\* generate-html.ts lists are the frames extract-frames.ts left, and there is
\* at least one
C26_GenerateSeesExtracted ==
  \A r \in StoreRuns :
    (GenerateListed(r) /\ dpc = "idle" /\ \E p \in db : p.extractCompleted)
      => seen = JpgNames(ExtractOutputDir) /\ seen # {}

\* ------------------------------------------------------- C22, C23, C24
\* the caption document as its lines, and what the claims call a timestamp
\* line and a blank line
VttLines == Split(vttContent, <<"\n">>)
IsStampLine(l) == Includes(l, Arrow)
IsBlank(l) == Trim(l) = <<>>

\* a finite set of numbers as an ascending sequence
RECURSIVE Ascending(_)
Ascending(S) ==
  IF S = {} THEN <<>>
  ELSE LET m == CHOOSE x \in S : \A y \in S : x <= y
       IN <<m>> \o Ascending(S \ {m})

\* the numbers of the timestamp lines, in document order
StampLines == Ascending({i \in DOMAIN VttLines : IsStampLine(VttLines[i])})

\* the lines that follow line i up to, and not including, the first line that
\* is blank or a timestamp line
BlockOf(i) ==
  {j \in (i + 1)..Len(VttLines) :
     \A k \in (i + 1)..j : ~IsBlank(VttLines[k]) /\ ~IsStampLine(VttLines[k])}

\* strings joined with single spaces
RECURSIVE SpaceJoin(_)
SpaceJoin(strs) ==
  IF strs = <<>> THEN <<>>
  ELSE IF Len(strs) = 1 THEN strs[1]
  ELSE strs[1] \o <<" ">> \o SpaceJoin(Tail(strs))

\* the text the claim gives the cue of timestamp line i
CueText(i) ==
  SpaceJoin([k \in 1..Cardinality(BlockOf(i)) |-> Trim(VttLines[i + k])])

\* the timestamp lines whose text is not empty, in document order
Kept == SelectSeq(StampLines, LAMBDA i : CueText(i) # <<>>)

\* C22: the text of each returned cue is the trimmed lines that follow its
\* timestamp line, up to the first blank line or next timestamp line, joined
\* with single spaces; lines before the first timestamp line are in no cue.
C22_CueTextIsBlock ==
  (vpc = "done" /\ ~result.threw) =>
     \A k \in DOMAIN result.cues :
        /\ k <= Len(Kept)
        /\ result.cues[k].text = CueText(Kept[k])

\* a cue has been built from two lines, one of them padded with spaces
C22_Witness ==
  /\ vpc = "done" /\ ~result.threw
  /\ \E k \in DOMAIN result.cues :
        /\ k <= Len(Kept)
        /\ Cardinality(BlockOf(Kept[k])) = 2
        /\ \E j \in BlockOf(Kept[k]) : Trim(VttLines[j]) # VttLines[j]
        /\ result.cues[k].text = CueText(Kept[k])

\* the sides of the separator on timestamp line i, as the claim reads them
SidesOf(i) == Split(Trim(VttLines[i]), Arrow)

\* a token with a single field has no seconds to convert
HasSeconds(t) == Len(Split(Trim(t), <<":">>)) >= 2

\* every token of every timestamp line has its seconds field
Convertible ==
  \A n \in DOMAIN StampLines :
     \A k \in DOMAIN SidesOf(StampLines[n]) : HasSeconds(SidesOf(StampLines[n])[k])

C24_StartNotAfterEnd ==
  (vpc = "done" /\ ~result.threw) =>
     \A k \in DOMAIN result.cues :
        /\ result.cues[k].startTime.kind = "num"
        /\ result.cues[k].endTime.kind = "num"
        /\ result.cues[k].startTime.v <= result.cues[k].endTime.v

\* ------------------------------------------------------------------ C25
\* 1 - 2 * |brightness - 0.5|, the factor of the composite score
BrightnessFactor(b) ==
  LET half == RatMinus(b, Rat(1, 2))
  IN RatMinus(Rat(1, 1), Rat(2 * Abs(half.n), half.d))

\* the buffer is all black or all white
Saturated(s) == s.brightness \in {Rat(0, 1), Rat(1, 1)}

\* C25 as stated: the composite score can be negative; of the buffers with
\* brightness at 0 or 1 that analyzeImage has scored, one has a score < 0
C25_SaturatedScoreNegative ==
  (\E k \in DOMAIN scores : Saturated(scores[k])) =>
     \E k \in DOMAIN scores :
        /\ Saturated(scores[k])
        /\ scores[k].score.kind = "num" /\ scores[k].score.sign < 0

\* C25, amended: the composite score is never negative.  The brightness is in
\* [0, 1], so the factor 1 - 2*|brightness - 0.5| is in [0, 1] (and 0 for an
\* all-black or all-white buffer); the sharpness is a square root or NaN; the
\* score is their product: a number >= 0, or NaN
C25_ScoreNeverNegative ==
  \A k \in DOMAIN scores :
     LET s == scores[k] IN
     /\ s.brightness.n >= 0 /\ s.brightness.n <= s.brightness.d
     /\ BrightnessFactor(s.brightness).n >= 0
     /\ Saturated(s) => BrightnessFactor(s.brightness).n = 0
     /\ s.score = ScoreTimes(s.sharpness, BrightnessFactor(s.brightness))
     /\ s.score.kind = "NaN" \/ s.score.sign >= 0

\* an all-white buffer has been scored, and its score is the number 0
C25_Witness ==
  \E k \in DOMAIN scores :
     /\ scores[k].brightness = Rat(1, 1)
     /\ scores[k].score.kind = "num"
     /\ scores[k].score.sign = 0

\* ------------------------------------------------------------------ C27
\* C27: the rename loop gives distinct frames distinct names: after a run the
\* files in the output directory are as many as the frames the decoder
\* emitted and as many as the entries of the returned list, whatever the
\* duration and the target count
C27_DistinctFrameNames ==
  epc = "done" =>
     /\ \A i, j \in DOMAIN files : i # j => files[i] # files[j]
     /\ Cardinality(frameDir) = Len(tempFiles)
     /\ Len(files) = Len(tempFiles)

\* ======================================================================
\* Part 7: the timecode of a frame name.  The rename loop of
\* extract-frames.ts writes frame_<secondsToTimecode(seconds)>.jpg, and the
\* selectors of generate-html.ts read timecodeToSeconds(basename(path)).
\* ======================================================================
\* offsets below 100 hours: whole seconds around the carries of the three
\* fields, and fractions of a second
SampleHours == {0, 1, 10, 99}
SampleMinutes == {0, 9, 59}
SampleSeconds == {0, 10, 59}
SampleFractions == {Rat(0, 1), Rat(1, 2), Rat(999, 1000)}

SampleOffsets ==
  {Rat((h * 3600 + m * 60 + s) * f.d + f.n, f.d) :
     h \in SampleHours, m \in SampleMinutes, s \in SampleSeconds,
     f \in SampleFractions}

CodecInit ==
  /\ OrchInit /\ VttIdle /\ ExIdle /\ SelIdle /\ GenIdle /\ StoreIdle
  /\ cpc = "offsets"
  /\ elapsed \in SampleOffsets \X SampleOffsets
  /\ named = <<>>
  /\ decoded = <<>>

exceptCodec == <<orchVars, vttVars, exVars, selVars, genVars, storeVars>>

\* const timecode = secondsToTimecode(seconds);
\* newPath = join(outputDir, `frame_${timecode}.jpg`)
NameFrames ==
  /\ cpc = "offsets"
  /\ named' = [k \in DOMAIN elapsed |->
                 Join(OutputDir, FramePrefix \o secondsToTimecode(elapsed[k]) \o Jpg)]
  /\ cpc' = "named"
  /\ UNCHANGED <<elapsed, decoded>>
  /\ UNCHANGED exceptCodec

\* timecodeToSeconds(basename(f)) of the selectors
ReadNames ==
  /\ cpc = "named"
  /\ decoded' = [k \in DOMAIN named |-> timecodeToSeconds(basename(named[k]))]
  /\ cpc' = "decoded"
  /\ UNCHANGED <<elapsed, named>>
  /\ UNCHANGED exceptCodec

CodecNext == NameFrames \/ ReadNames

CodecSpec == CodecInit /\ [][CodecNext]_vars

\* C28: for an offset s below 100 hours, timecodeToSeconds of the name
\* frame_<secondsToTimecode(s)>.jpg is floor(s), and the names of two frames
\* are in lexicographic order exactly when their whole-second offsets are in
\* numeric order
C28_TimecodeRoundTrip ==
  cpc = "decoded" =>
     /\ \A k \in DOMAIN elapsed :
          Floor(elapsed[k]) < 360000 => decoded[k] = Floor(elapsed[k])
     /\ (Floor(elapsed[1]) < 360000 /\ Floor(elapsed[2]) < 360000) =>
          (StrLess(basename(named[1]), basename(named[2]))
             <=> Floor(elapsed[1]) < Floor(elapsed[2]))

\* 99:59:59.999 and 1:00:00 have been written and read back; the name of the
\* later offset sorts after the name of the earlier one
C28_Witness ==
  /\ cpc = "decoded"
  /\ elapsed = <<Rat(359999999, 1000), Rat(3600, 1)>>
  /\ decoded = <<359999, 3600>>
  /\ StrLess(basename(named[2]), basename(named[1]))

\* ------------------------------------------------------------ C29, C30
\* C29: over any sequence of run requests on the project, a completion flag
\* that is true never becomes false again, and whenever the status is
\* completed the flag generateCompleted is true
C29_CompletedHasFlag ==
  \A p \in db : p.status = "completed" => p.generateCompleted

C29_FlagStays ==
  \A f \in Flags : \A p \in db : \A q \in db' : p[f] => q[f]

C29_FlagsMonotone == [](C29_CompletedHasFlag) /\ [][C29_FlagStays]_vars

\* a run has failed after generateCompleted was set: the status is error and
\* the flag is still true
C29_Witness ==
  \E r \in Runs :
    /\ pc[r] = "closed" /\ procs[r] # <<>> /\ Failed(Last(procs[r]))
    /\ \A i \in DOMAIN writes[r] : "generateCompleted" \notin DOMAIN writes[r][i]
    /\ \A p \in db : p.status = "error" /\ p.generateCompleted

\* C30 as stated: the error message is there only while the status is error
C30_MessageOnlyWhileError ==
  \A p \in db : p.status # "error" => p.errorMessage = NULL

\* C30, amended: errorMessage is the message of the last failure.  It is
\* written only by the catch block of a failed run, together with status
\* error, and a later write of a run that begins or succeeds leaves it as it
\* is: a row with status error has a message, and a message is never cleared
C30_ErrorHasMessage ==
  \A p \in db : p.status = "error" => p.errorMessage # NULL

C30_MessageStep ==
  \A p \in db : \A q \in db' :
    /\ p.errorMessage # NULL => q.errorMessage # NULL
    /\ q.errorMessage # p.errorMessage =>
         /\ q.status = "error"
         /\ \E r \in Runs :
              pc[r] = "rejected" /\ pc'[r] = "closed" /\ q.errorMessage = err[r]

C30_LastErrorKept == [](C30_ErrorHasMessage) /\ [][C30_MessageStep]_vars

\* a transcribe or extract run has succeeded after an earlier run failed: the
\* status is pending again and the message of the failure is still there
C30_Witness ==
  \E r \in Runs :
    /\ pc[r] = "closed" /\ Succeeded(r)
    /\ step[r] \in {"transcribe", "extract"}
    /\ \A p \in db : p.status = "pending" /\ p.errorMessage # NULL

====
